---- MODULE Spec2Model ----
(***************************************************************************)
(* Run monitor of dagster/_daemon/monitoring/monitoring_daemon.py.         *)
(*                                                                         *)
(* execute_monitoring_iteration is a generator: it fetches the in-progress *)
(* run records, handles them one by one inside a per-run try/except and    *)
(* yields one value per record.  The run store, the run launcher, the      *)
(* instance and the clock are collaborators: each call can return or       *)
(* raise, so the handler of a run is modelled by the set of ways it can    *)
(* end.  The calls made while handling one run are recorded in `calls`.    *)
(*                                                                         *)
(* Spec            one call of execute_monitoring_iteration on several runs *)
(* SpecDaemon      the daemon calling it again and again on one live run    *)
(* SpecUnfiltered  one call on records the status filter should have kept   *)
(*                 out                                                      *)
(*                                                                         *)
(* Graph resolver of dagster/_core/definitions/node_container.py, further   *)
(* down: SpecResolver.                                                      *)
(***************************************************************************)
EXTENDS Integers, Sequences, FiniteSets, TLC

\* ------------------------------------------------------------------ bounds
NumRuns == 2          \* runs in the run store
MaxIters == 2         \* further calls of the iteration by the daemon
MaxTick == 2          \* small clock readings 1 .. MaxTick

\* --------------------------------------------------------------- constants
DEFAULT_MAX_RUNTIME == 60 * 60 * 12
RESUME_RUN_LOG_MESSAGE == "Launching a new run worker to resume run"
MAX_RUNTIME_TAG == "dagster/max_runtime"

\* Messages of the other engine events the monitor records.
RESUMING_MESSAGE == "Detected run worker status. Resuming run with a new worker."
TERMINATE_FAILED_MESSAGE ==
    "Exception while attempting to force-terminate run. Run will still be marked as canceled."

RunIds == 1 .. NumRuns
None == -1            \* Python None where a number is expected
NoTime == None        \* a record without that time stamp
NoNum == None         \* a call without a number

IN_PROGRESS_RUN_STATUSES == {"STARTING", "STARTED", "CANCELING"}
\* The worker statuses a health check answers with; the last stands for the
\* statuses that are neither RUNNING nor SUCCESS.
WorkerStatus == {"RUNNING", "SUCCESS", "FAILED"}

\* Clock readings: a few seconds, and the default budget and one past it.
Times == (1 .. MaxTick) \cup {DEFAULT_MAX_RUNTIME, DEFAULT_MAX_RUNTIME + 1}
\* Launch and start times a record can carry.
StampTimes == {NoTime, 0}
\* Values of the max-runtime tag: numeric strings, as sequences of characters.
TagStrings == {<<"0">>, <<"1">>}
\* The tags of a run: a set of <<key, value>> pairs.
TagSets == {{}} \cup {{<<MAX_RUNTIME_TAG, s>>} : s \in TagStrings}

Configs ==
    [supports_check_run_worker_health : BOOLEAN,
     supports_resume_run : BOOLEAN,
     run_monitoring_start_timeout_seconds : {2},
     run_monitoring_max_resume_run_attempts : {0, 1, 2}]

VARIABLES
    instance,       \* the configuration the instance and its launcher expose
    runs,           \* run store: run id -> [status, launch_time, start_time, tags, log]
    pc,             \* "idle", "loop" or "done": position of the generator
    iter,           \* calls of the iteration made by the daemon after the first
    run_records,    \* the records fetched by this iteration, in store order
    workspace,      \* TRUE when this iteration created a request context
    idx,            \* position of the next record in run_records
    run_record,     \* the record handled last
    now,            \* what the clock read while handling run_record
    calls,          \* the collaborator calls made while handling run_record
    handled,        \* TRUE when handle_started_run was entered for run_record
    yielded,        \* what this iteration has yielded: <<[run_id, marker]>>
    first_pass      \* history: the first run handled, the store it met, what was done

\* The graph resolver of dagster/_core/definitions/node_container.py: the
\* arguments, the locals and the result of one resolution.
VARIABLES
    node_defs,                  \* the node definitions supplied
    dependencies,               \* the value given to validate_dependency_dict
    rpc,                        \* "start", "rejected", "validated", "raised" or "returned"; "off" for the monitor
    dependencies_dict,          \* what validate_dependency_dict returned
    aliased_dependencies_dict,  \* dependencies_dict re-keyed by alias
    name_to_aliases,            \* definition name -> aliases used
    alias_to_solid_instance,    \* alias -> the NodeInvocation it comes from
    alias_to_name,              \* alias -> definition name
    node_dict,                  \* node name -> Node
    dependency_structure,       \* the DependencyStructure returned
    error,                      \* the exception that ended the resolution
    previous                    \* what the resolution before this one returned

monitor_vars ==
    <<instance, runs, pc, iter, run_records, workspace, idx, run_record, now,
      calls, handled, yielded, first_pass>>

resolver_vars ==
    <<node_defs, dependencies, rpc, dependencies_dict, aliased_dependencies_dict,
      name_to_aliases, alias_to_solid_instance, alias_to_name, node_dict,
      dependency_structure, error, previous>>

vars == <<monitor_vars, resolver_vars>>

\* ------------------------------------------------------ the resolver at rest
PyNone == [type |-> "NoneType"]       \* Python None where an object is expected
NoError == [exception |-> "", message |-> <<>>]
NoResult == [returned |-> FALSE, dependency_structure |-> {}, node_dict |-> <<>>]

\* The locals and the result before create_execution_structure is called.
NotCalled ==
    /\ aliased_dependencies_dict = <<>>
    /\ name_to_aliases = <<>>
    /\ alias_to_solid_instance = <<>>
    /\ alias_to_name = <<>>
    /\ node_dict = <<>>
    /\ dependency_structure = {}
    /\ error = NoError

\* No resolution: the state of the resolver in the monitor's specifications.
ResolverOff ==
    /\ rpc = "off"
    /\ node_defs = <<>>
    /\ dependencies = PyNone
    /\ dependencies_dict = PyNone
    /\ previous = NoResult
    /\ NotCalled

\* ----------------------------------------------------------------- helpers
Call(op, run_id, arg, num, ok) ==
    [op |-> op, run_id |-> run_id, arg |-> arg, num |-> num, ok |-> ok]

\* A call that asks a collaborator: it returns the answer or raises.
Ask(op, run_id, arg, num) ==
    {Call(op, run_id, arg, num, TRUE), Call(op, run_id, "", NoNum, FALSE)}

\* A call that requests an action with arguments: it completes or raises.
Do(op, run_id, arg, num) ==
    {Call(op, run_id, arg, num, TRUE), Call(op, run_id, arg, num, FALSE)}

\* One way of handling a run: the calls made, whether an exception left the
\* handler, whether handle_started_run was entered, what the clock read.
Outcome(cs, raised, h, t) ==
    [calls |-> cs, raised |-> raised, handled |-> h, now |-> t]

DigitValue(c) ==
    CASE c = "0" -> 0 [] c = "1" -> 1 [] c = "2" -> 2 [] c = "3" -> 3
      [] c = "4" -> 4 [] c = "5" -> 5 [] c = "6" -> 6 [] c = "7" -> 7
      [] c = "8" -> 8 [] c = "9" -> 9

RECURSIVE float(_)
\* float() of a string of decimal digits.
float(s) ==
    IF Len(s) = 0 THEN 0
    ELSE 10 * float(SubSeq(s, 1, Len(s) - 1)) + DigitValue(s[Len(s)])

\* tags.get(key): the value, or <<>> when the key is absent (None and the
\* empty string are both falsy where the result is used).
TagsGet(tags, key) ==
    IF \E p \in tags : p[1] = key
    THEN (CHOOSE p \in tags : p[1] = key)[2]
    ELSE <<>>

RECURSIVE CountMessage(_, _)
CountMessage(log, msg) ==
    IF log = <<>> THEN 0
    ELSE (IF Head(log) = msg THEN 1 ELSE 0) + CountMessage(Tail(log), msg)

\* ------------------------------------------- collaborators (instance, store)
\* What a completed call does to the run store.  The instance and the run
\* launcher are not part of the monitor; their effect follows the transition
\* interface the monitor is written against.
ApplyCall(store, c) ==
    IF ~c.ok THEN store
    ELSE CASE c.op = "report_run_failed" ->
                [store EXCEPT ![c.run_id].status = "FAILURE"]
           [] c.op = "report_run_canceled" ->
                [store EXCEPT ![c.run_id].status = "CANCELED"]
           [] c.op = "report_engine_event" ->
                [store EXCEPT ![c.run_id].log = Append(@, c.arg)]
           [] c.op = "resume_run" ->
                [store EXCEPT ![c.run_id].log = Append(@, RESUME_RUN_LOG_MESSAGE)]
           [] OTHER -> store

RECURSIVE ApplyCalls(_, _)
ApplyCalls(store, cs) ==
    IF cs = <<>> THEN store
    ELSE ApplyCalls(ApplyCall(store, Head(cs)), Tail(cs))

\* ------------------------------------------------------ monitor_starting_run
\* Mutant: the timeout boundary excluded.
start_timed_out_strict(launch_time, t) ==
    /\ instance.supports_check_run_worker_health
    /\ t - launch_time > instance.run_monitoring_start_timeout_seconds

\* Mutant: the timeout applies whatever the launcher supports.
start_timed_out_unguarded(launch_time, t) ==
    t - launch_time >= instance.run_monitoring_start_timeout_seconds

start_timed_out(launch_time, t) ==
    /\ instance.supports_check_run_worker_health
    /\ t - launch_time >= instance.run_monitoring_start_timeout_seconds

monitor_starting_run(rec) ==
    UNION {
        IF ~stats.ok \/ stats.num = NoTime
        THEN {Outcome(<<stats>>, TRUE, FALSE, NoTime)}
        ELSE UNION {
            IF start_timed_out(stats.num, t)
            THEN {Outcome(<<stats, failed>>, ~failed.ok, FALSE, t) :
                    failed \in Do("report_run_failed", rec.run_id, "start_timeout", NoNum)}
            ELSE {Outcome(<<stats>>, FALSE, FALSE, t)}
            : t \in Times}
        : stats \in Ask("get_run_stats", rec.run_id, "", runs[rec.run_id].launch_time)}

\* ------------------------------------------------- count_resume_run_attempts
\* Mutant: the resume markers of the log are not counted.
count_resume_run_attempts_none(log) == 0

count_resume_run_attempts(log) == CountMessage(log, RESUME_RUN_LOG_MESSAGE)

\* -------------------------------------------------------- handle_started_run
max_time(tags) ==
    LET max_time_str == TagsGet(tags, MAX_RUNTIME_TAG)
    IN  IF max_time_str # <<>> THEN float(max_time_str) ELSE DEFAULT_MAX_RUNTIME

\* Mutant: the budget boundary included.
exceeded_max_runtime_inclusive(rec, t) == t - rec.start_time >= max_time(rec.tags)

exceeded_max_runtime(rec, t) == t - rec.start_time > max_time(rec.tags)

\* Mutant: the run is marked canceled before the engine event is recorded.
terminate_failed_cancel_first(rec, cs, t) ==
    UNION {
        IF ~canceled.ok THEN {Outcome(cs \o <<canceled>>, TRUE, TRUE, t)}
        ELSE {Outcome(cs \o <<canceled, event>>, ~event.ok, TRUE, t) :
                event \in Do("report_engine_event", rec.run_id, TERMINATE_FAILED_MESSAGE, NoNum)}
        : canceled \in Do("report_run_canceled", rec.run_id, "TIMED_OUT", NoNum)}

\* Mutant: the cancellation is reported for the first run of the store.
terminate_failed_first_run(rec, cs, t) ==
    UNION {
        IF ~event.ok THEN {Outcome(cs \o <<event>>, TRUE, TRUE, t)}
        ELSE {Outcome(cs \o <<event, canceled>>, ~canceled.ok, TRUE, t) :
                canceled \in Do("report_run_canceled", 1, "TIMED_OUT", NoNum)}
        : event \in Do("report_engine_event", rec.run_id, TERMINATE_FAILED_MESSAGE, NoNum)}

\* Lines 174-194: the except branch of the terminate call; cs are the calls
\* made so far.
terminate_failed(rec, cs, t) ==
    UNION {
        IF ~event.ok THEN {Outcome(cs \o <<event>>, TRUE, TRUE, t)}
        ELSE {Outcome(cs \o <<event, canceled>>, ~canceled.ok, TRUE, t) :
                canceled \in Do("report_run_canceled", rec.run_id, "TIMED_OUT", NoNum)}
        : event \in Do("report_engine_event", rec.run_id, TERMINATE_FAILED_MESSAGE, NoNum)}

\* cs are the calls made by the health branch.  The clock is read only when
\* the record has a start time.
handle_started_run(rec, cs) ==
    IF rec.start_time = NoTime THEN {Outcome(cs, FALSE, TRUE, NoTime)}
    ELSE UNION {
        IF exceeded_max_runtime(rec, t)
        THEN UNION {
            IF term.ok THEN {Outcome(cs \o <<term>>, FALSE, TRUE, t)}
            ELSE terminate_failed(rec, cs \o <<term>>, t)
            : term \in Do("terminate", rec.run_id, "", NoNum)}
        ELSE {Outcome(cs, FALSE, TRUE, t)}
        : t \in Times}

\* ------------------------------------------------------- monitor_started_run
\* Mutant: a worker that has succeeded counts as unhealthy.
worker_healthy_running_only(status) == status = "RUNNING"

worker_healthy(status) == status \in {"RUNNING", "SUCCESS"}

\* Mutant: a run found CANCELING is treated as unchanged.
status_changed_unless_canceling(run_status, recheck_status) ==
    run_status # recheck_status /\ recheck_status # "CANCELING"

\* Mutant: the re-fetched status is ignored.
status_changed_never(run_status, recheck_status) == FALSE

status_changed(run_status, recheck_status) == run_status # recheck_status

\* Mutant: a run is resumed in the first iteration of the daemon only.
may_resume_first_iteration(num_prev_attempts) ==
    /\ iter = 0
    /\ num_prev_attempts < instance.run_monitoring_max_resume_run_attempts

\* Mutant: the run is resumed whatever the number of earlier attempts.
may_resume_always(num_prev_attempts) == TRUE

\* Mutant: one resume too many.
may_resume_inclusive(num_prev_attempts) ==
    num_prev_attempts <= instance.run_monitoring_max_resume_run_attempts

may_resume(num_prev_attempts) ==
    num_prev_attempts < instance.run_monitoring_max_resume_run_attempts

\* Mutant: the attempt number is not advanced.
attempt_number_same(num_prev_attempts) == num_prev_attempts

attempt_number(num_prev_attempts) == num_prev_attempts + 1

failed_message ==
    IF instance.supports_resume_run THEN "surpassed_maximum_attempts"
    ELSE "marking_failed"

\* A way the health branch can end: `skip` is the early return of line 79.
Health(cs, raised, skip) == [calls |-> cs, raised |-> raised, skip |-> skip]

\* Mutant: the run is resumed and marked failed in the same pass.
resume_and_fail(rec, cs, num_prev_attempts) ==
    {Health(cs \o <<resume, failed>>, ~resume.ok \/ ~failed.ok, FALSE) :
        resume \in Do("resume_run", rec.run_id, "", attempt_number(num_prev_attempts)),
        failed \in Do("report_run_failed", rec.run_id, failed_message, NoNum)}

\* Lines 80-107: resume the run, or mark it failed.
resume_or_fail(rec, cs, num_prev_attempts) ==
    IF may_resume(num_prev_attempts)
    THEN UNION {
        IF ~event.ok THEN {Health(cs \o <<event>>, TRUE, FALSE)}
        ELSE {Health(cs \o <<event, resume>>, ~resume.ok, FALSE) :
                resume \in Do("resume_run", rec.run_id, "",
                              attempt_number(num_prev_attempts))}
        : event \in Do("report_engine_event", rec.run_id, RESUMING_MESSAGE, NoNum)}
    ELSE {Health(cs \o <<failed>>, ~failed.ok, FALSE) :
            failed \in Do("report_run_failed", rec.run_id, failed_message, NoNum)}

\* Lines 70-107: the worker is not healthy.
unhealthy_run(rec, cs) ==
    UNION {
        IF ~logs.ok THEN {Health(cs \o <<logs>>, TRUE, FALSE)}
        ELSE UNION {
            IF ~recheck.ok THEN {Health(cs \o <<logs, recheck>>, TRUE, FALSE)}
            ELSE IF status_changed(rec.status, recheck.arg)
                 THEN {Health(cs \o <<logs, recheck>>, FALSE, TRUE)}
                 ELSE resume_or_fail(rec, cs \o <<logs, recheck>>, logs.num)
            : recheck \in Ask("get_run_by_id", rec.run_id, runs[rec.run_id].status, NoNum)}
        : logs \in Ask("all_logs", rec.run_id, "",
                       count_resume_run_attempts(runs[rec.run_id].log))}

\* Lines 67-107: the health branch.
check_health(rec) ==
    IF ~instance.supports_check_run_worker_health
    THEN {Health(<<>>, FALSE, FALSE)}
    ELSE UNION {
        IF ~check.ok THEN {Health(<<check>>, TRUE, FALSE)}
        ELSE IF worker_healthy(check.arg) THEN {Health(<<check>>, FALSE, FALSE)}
        ELSE unhealthy_run(rec, <<check>>)
        : check \in UNION {Ask("check_run_worker_health", rec.run_id, s, NoNum) :
                            s \in WorkerStatus}}

\* Mutant: the early return of line 79 falls through to line 108.
reaches_handle_after_skip(h) == ~h.raised

\* Whether line 108 is reached after the health branch.
reaches_handle_started_run(h) == ~h.raised /\ ~h.skip

monitor_started_run(rec) ==
    UNION {
        IF reaches_handle_started_run(h)
        THEN handle_started_run(rec, h.calls)
        ELSE {Outcome(h.calls, h.raised, FALSE, NoTime)}
        : h \in check_health(rec)}

\* ---------------------------------------------- execute_monitoring_iteration
RECURSIVE Ascending(_)
Ascending(S) ==
    IF S = {} THEN <<>>
    ELSE LET m == CHOOSE x \in S : \A y \in S : x <= y
         IN  <<m>> \o Ascending(S \ {m})

Reverse(q) == [i \in DOMAIN q |-> q[Len(q) + 1 - i]]

\* The orders in which the run store returns the runs of S: oldest first or
\* newest first.
Orders(S) == {Ascending(S), Reverse(Ascending(S))}

NoRecord == [run_id |-> 0, status |-> "", start_time |-> NoTime, tags |-> {}]

\* The RunRecord the store returns for run r.
RunRecord(r) ==
    [run_id |-> r, status |-> runs[r].status, start_time |-> runs[r].start_time,
     tags |-> runs[r].tags]

\* Line 127: the request context is created only past the early return.
creates_request_context(records) == records # <<>>

\* Mutant: the error record is dropped.
yield_marker_none(raised) == "None"

\* Lines 141-148: what the generator yields for a run.
yield_marker(raised) == IF raised THEN "error" ELSE "None"

\* Mutant: an exception ends the loop.
after_yield_abort(i, n, raised) == IF raised \/ i = n THEN "done" ELSE "loop"

\* Where the generator stands after the yield for record i of n.
after_yield(i, n, raised) == IF i = n THEN "done" ELSE "loop"

\* Lines 116-127: fetch the in-progress runs; return when there are none.
GetRunRecords ==
    /\ pc = "idle"
    /\ \E order \in Orders({r \in RunIds : runs[r].status \in IN_PROGRESS_RUN_STATUSES}) :
        LET records == [i \in DOMAIN order |-> RunRecord(order[i])]
        IN  /\ run_records' = records
            /\ workspace' = creates_request_context(records)
            /\ pc' = IF records = <<>> THEN "done" ELSE "loop"
    /\ UNCHANGED <<instance, runs, iter, idx, run_record, now, calls, handled, yielded,
                   first_pass>>
    /\ UNCHANGED resolver_vars

\* The history variable first_pass: NoPass when no history is kept, Watching
\* until a run is handled, then what the first pass met and did.
NoPass ==
    [kept |-> "never", store |-> <<>>, record |-> NoRecord,
     outcome |-> Outcome(<<>>, FALSE, FALSE, NoTime)]
Watching == [NoPass EXCEPT !.kept = "next"]

\* The end of one pass of the for loop: the calls have acted on the store,
\* and the generator yields.
Yield(rec, o) ==
    /\ runs' = ApplyCalls(runs, o.calls)
    /\ run_record' = rec
    /\ now' = o.now
    /\ calls' = o.calls
    /\ handled' = o.handled
    /\ yielded' = Append(yielded, [run_id |-> rec.run_id, marker |-> yield_marker(o.raised)])
    /\ pc' = after_yield(idx, Len(run_records), o.raised)
    /\ idx' = idx + 1
    /\ first_pass' = IF first_pass.kept = "next"
                     THEN [kept |-> "yes", store |-> runs, record |-> rec, outcome |-> o]
                     ELSE first_pass
    /\ UNCHANGED <<instance, iter, run_records, workspace>>
    /\ UNCHANGED resolver_vars

\* Lines 132-133.
MonitorStartingRun ==
    /\ pc = "loop"
    /\ run_records[idx].status = "STARTING"
    /\ \E o \in monitor_starting_run(run_records[idx]) : Yield(run_records[idx], o)

\* Lines 134-135.
MonitorStartedRun ==
    /\ pc = "loop"
    /\ run_records[idx].status = "STARTED"
    /\ \E o \in monitor_started_run(run_records[idx]) : Yield(run_records[idx], o)

\* Lines 136-138.
MonitorCancelingRun ==
    /\ pc = "loop"
    /\ run_records[idx].status = "CANCELING"
    /\ Yield(run_records[idx], Outcome(<<>>, FALSE, FALSE, NoTime))

\* ------------------------------------------------------------- environment
\* Status changes made by others between the fetch of a run and its turn in
\* the loop: the changes the iteration can meet.
ExternalChanges ==
    {<<"STARTING", "STARTED">>, <<"STARTED", "SUCCESS">>, <<"STARTING", "CANCELING">>,
     <<"STARTED", "CANCELING">>, <<"CANCELING", "CANCELED">>}

ExternalStatusChange ==
    /\ pc = "loop"
    /\ \E i \in idx .. Len(run_records), t \in ExternalChanges :
        LET r == run_records[i].run_id
        IN  /\ runs[r].status = t[1]
            /\ runs' = [runs EXCEPT ![r].status = t[2]]
    /\ UNCHANGED <<instance, pc, iter, run_records, workspace, idx, run_record, now,
                   calls, handled, yielded, first_pass>>
    /\ UNCHANGED resolver_vars

\* The daemon calls the iteration again.
Reinvoke ==
    /\ pc = "done"
    /\ iter < MaxIters
    /\ iter' = iter + 1
    /\ pc' = "idle"
    /\ run_records' = <<>>
    /\ workspace' = FALSE
    /\ idx' = 1
    /\ run_record' = NoRecord
    /\ now' = NoTime
    /\ calls' = <<>>
    /\ handled' = FALSE
    /\ yielded' = <<>>
    /\ UNCHANGED <<instance, runs, first_pass>>
    /\ UNCHANGED resolver_vars

\* ----------------------------------------------------------- specification
\* Before the first call of the iteration.
AtRest ==
    /\ pc = "idle"
    /\ iter = 0
    /\ run_records = <<>>
    /\ workspace = FALSE
    /\ idx = 1
    /\ run_record = NoRecord
    /\ now = NoTime
    /\ calls = <<>>
    /\ handled = FALSE
    /\ yielded = <<>>

\* No history is kept of the first run handled.
Idle == AtRest /\ first_pass = NoPass

\* Several runs that were launched and started at time 0 and carry no tag.
Init ==
    /\ instance \in Configs
    /\ runs \in [RunIds -> [status : IN_PROGRESS_RUN_STATUSES \cup {"SUCCESS"},
                            launch_time : {0},
                            start_time : {0}, tags : {{}}, log : {<<>>}]]
    /\ Idle
    /\ ResolverOff

Next ==
    \/ GetRunRecords
    \/ MonitorStartingRun
    \/ MonitorStartedRun
    \/ MonitorCancelingRun
    \/ ExternalStatusChange

Spec == Init /\ [][Next]_vars

\* One live run with any times and tags; the other runs have ended.
InitDaemon ==
    /\ instance \in Configs
    /\ runs \in [RunIds -> [status : {"STARTING", "STARTED", "SUCCESS"},
                            launch_time : StampTimes, start_time : StampTimes,
                            tags : TagSets, log : {<<>>}]]
    /\ runs[1].status # "SUCCESS"
    /\ \A r \in RunIds \ {1} :
        runs[r] = [status |-> "SUCCESS", launch_time |-> 0, start_time |-> 0,
                   tags |-> {}, log |-> <<>>]
    /\ Idle
    /\ ResolverOff

NextDaemon == Next \/ Reinvoke

SpecDaemon == InitDaemon /\ [][NextDaemon]_vars

\* The steps of the daemon and of the generator it drives: the daemon keeps
\* calling the iteration and consumes what it yields, so a step of theirs
\* that stays possible is taken.  Nothing is assumed of the others' changes.
MonitorStep ==
    \/ GetRunRecords
    \/ MonitorStartingRun
    \/ MonitorStartedRun
    \/ MonitorCancelingRun
    \/ Reinvoke

SpecDaemonFair == SpecDaemon /\ WF_vars(MonitorStep)

\* The daemon with one live run launched and started at time 0, with no tag,
\* and the history of the first run handled.
InitStateless ==
    /\ instance \in Configs
    /\ runs \in [RunIds -> [status : {"STARTING", "STARTED", "SUCCESS"},
                            launch_time : {0}, start_time : {0},
                            tags : {{}}, log : {<<>>}]]
    /\ runs[1].status # "SUCCESS"
    /\ \A r \in RunIds \ {1} : runs[r].status = "SUCCESS"
    /\ AtRest
    /\ first_pass = Watching
    /\ ResolverOff

SpecStateless == InitStateless /\ [][NextDaemon]_vars

\* ------------------------------------------- a record outside the status filter
\* Lines 119-121 with a run store that returns every run, whatever the
\* statuses asked for: the only way a record reaches the else branch of
\* line 139.
GetRunRecordsUnfiltered ==
    /\ pc = "idle"
    /\ \E order \in Orders(RunIds) :
        LET records == [i \in DOMAIN order |-> RunRecord(order[i])]
        IN  /\ run_records' = records
            /\ workspace' = creates_request_context(records)
            /\ pc' = IF records = <<>> THEN "done" ELSE "loop"
    /\ UNCHANGED <<instance, runs, iter, idx, run_record, now, calls, handled, yielded,
                   first_pass>>
    /\ UNCHANGED resolver_vars

\* Lines 139-146: check.invariant(False, ...) raises a CheckError, an
\* Exception, inside the try; the except clause of line 141 catches it.
MonitorUnexpectedRun ==
    /\ pc = "loop"
    /\ run_records[idx].status \notin IN_PROGRESS_RUN_STATUSES
    /\ Yield(run_records[idx], Outcome(<<>>, TRUE, FALSE, NoTime))

NextUnfiltered ==
    \/ GetRunRecordsUnfiltered
    \/ MonitorStartingRun
    \/ MonitorStartedRun
    \/ MonitorCancelingRun
    \/ MonitorUnexpectedRun
    \/ ExternalStatusChange

SpecUnfiltered == Init /\ [][NextUnfiltered]_vars


\* ======================================================== graph resolver
\* dagster/_core/definitions/node_container.py: validate_dependency_dict and
\* create_execution_structure.
\*
\* SpecResolver  a graph definition validates a dependency mapping and builds
\*               the execution structure from it, twice over the same mapping

\* ------------------------------------------------------------------ bounds
MaxKeys == 2          \* keys of a dependency mapping
MaxInputs == 2        \* inputs bound in a dependency mapping, over all its keys
MaxFanIn == 2         \* producers in a fan-in list

\* ------------------------------------------------------------ Python values
\* A Python value is a record that carries its type.
Str(s) == [type |-> "str", value |-> s]
PyInt(s) == [type |-> "int", value |-> s]
PyList == [type |-> "list"]
\* A dict: its items in insertion order, the keys distinct.
Dict(items) == [type |-> "dict", items |-> items]
Item(k, v) == [key |-> k, value |-> v]

NoAlias == ""         \* alias=None
NoPolicy == ""        \* retry_policy=None
NodeInvocation(name, alias, tags, hook_defs, retry_policy) ==
    [type |-> "NodeInvocation", name |-> name, alias |-> alias, tags |-> tags,
     hook_defs |-> hook_defs, retry_policy |-> retry_policy]
DependencyDefinition(node, output) ==
    [type |-> "DependencyDefinition", node |-> node, output |-> output]
MultiDependencyDefinition(deps) ==
    [type |-> "MultiDependencyDefinition", dependencies |-> deps]

\* isinstance(v, IDependencyDefinition)
IsDependencyDefinition(v) ==
    v.type \in {"DependencyDefinition", "MultiDependencyDefinition"}
\* IDependencyDefinition.get_node_dependencies and is_fan_in.
get_node_dependencies(dep_def) ==
    IF dep_def.type = "MultiDependencyDefinition" THEN dep_def.dependencies
    ELSE <<dep_def>>
is_fan_in(dep_def) == dep_def.type = "MultiDependencyDefinition"

\* The items of a dict held in a local: d[k], k in d, d.get(k, default) and
\* d[k] = v, which keeps the place of a key already there.
DictKeys(d) == {d[i].key : i \in DOMAIN d}
DictHas(d, k) == \E i \in DOMAIN d : d[i].key = k
DictGet(d, k, default) ==
    IF DictHas(d, k) THEN d[CHOOSE i \in DOMAIN d : d[i].key = k].value ELSE default
DictSet(d, k, v) ==
    IF DictHas(d, k)
    THEN [i \in DOMAIN d |-> IF d[i].key = k THEN Item(k, v) ELSE d[i]]
    ELSE Append(d, Item(k, v))

\* --------------------------------------------------------- node definitions
\* A NodeDefinition: its name, its class, its input definitions in order and
\* the names of its outputs.
InputDefinition(name, display_name, supports_fan_in) ==
    [name |-> name, display_name |-> display_name, supports_fan_in |-> supports_fan_in]
NodeDefinition(name, class, inputs, outputs) ==
    [name |-> name, class |-> class, input_dict |-> inputs, outputs |-> outputs]
has_input(definition, name) ==
    \E i \in DOMAIN definition.input_dict : definition.input_dict[i].name = name
has_output(definition, name) == name \in definition.outputs
input_def_named(definition, name) ==
    definition.input_dict[CHOOSE i \in DOMAIN definition.input_dict :
                            definition.input_dict[i].name = name]
input_names(definition) ==
    [i \in DOMAIN definition.input_dict |-> definition.input_dict[i].name]

\* The definitions a graph is built from: an op with an output, whose input
\* takes one value, and a graph without outputs, whose input takes a list.
NodeDefs ==
    {NodeDefinition("a", "OpDefinition", <<InputDefinition("x", "Int", FALSE)>>, {"out"}),
     NodeDefinition("b", "GraphDefinition", <<InputDefinition("x", "List", TRUE)>>, {})}
DefNames == {d.name : d \in NodeDefs}

\* The sequences of at most n distinct members of S.
RECURSIVE Arrangements(_, _)
Arrangements(S, n) ==
    IF n = 0 THEN {<<>>}
    ELSE LET shorter == Arrangements(S, n - 1)
         IN  shorter \cup
             {Append(p[1], p[2]) :
                p \in {p \in shorter \X S : \A i \in DOMAIN p[1] : p[1][i] # p[2]}}

\* node_defs: the definitions in any order, a definition at most once.
NodeDefLists == Arrangements(NodeDefs, Cardinality(NodeDefs))

\* ------------------------------------------------------ dependency mappings
NodeNames == DefNames \cup {"c"}     \* "c" names no definition
InputNames == {"x", "y"}            \* no definition has an input "y"
OutputNames == {"out"}              \* definition "b" has no output

\* The keys of a dependency mapping: strings and invocations, with and
\* without an alias; the invocations differ in tags, hooks and retry policy.
Keys ==
    {Str(n) : n \in DefNames} \cup
    {NodeInvocation("a", NoAlias, {"tag"}, {}, NoPolicy),
     NodeInvocation("a", "c", {}, {"hook"}, NoPolicy),
     NodeInvocation("a", "b", {}, {}, "retry"),
     NodeInvocation("b", "c", {"tag"}, {"hook"}, "retry")}

DependencyDefinitions ==
    {DependencyDefinition(n, o) : n \in NodeNames, o \in OutputNames}
FanInMembers == {DependencyDefinition(n, "out") : n \in DefNames}
MultiDependencyDefinitions ==
    {MultiDependencyDefinition(q) : q \in Arrangements(FanInMembers, MaxFanIn)}
IDependencyDefinitions == DependencyDefinitions \cup MultiDependencyDefinitions

\* The dicts input name -> dependency definition with at most n items.
InputDepDicts(n) ==
    UNION {IF names = <<>> THEN {Dict(<<>>)}
           ELSE {Dict([i \in DOMAIN names |-> Item(Str(names[i]), deps[i])]) :
                    deps \in [DOMAIN names -> IDependencyDefinitions]}
           : names \in Arrangements(InputNames, n)}

\* The well-formed dependency mappings with at most k keys that bind at most
\* n inputs in all.
RECURSIVE DependencyItems(_, _)
DependencyItems(k, n) ==
    IF k = 0 THEN {<<>>}
    ELSE {<<>>} \cup
         UNION {UNION {{<<Item(key, d)>> \o rest :
                          rest \in {r \in DependencyItems(k - 1, n - Len(d.items)) :
                                      \A i \in DOMAIN r : r[i].key # key}}
                       : key \in Keys}
                : d \in InputDepDicts(n)}
DependencyDicts == {Dict(items) : items \in DependencyItems(MaxKeys, MaxInputs)}

\* Values that are not well-formed dependency mappings: a key that is no
\* string, values and inner values of the wrong type, an inner key that is
\* no string, alone and after or before a well-formed item.
MalformedKeys == {Str("a"), PyInt("7")}
MalformedValues ==
    {Dict(<<>>), DependencyDefinition("a", "out"), Str("oops"),
     Dict(<<Item(PyInt("7"), DependencyDefinition("a", "out"))>>),
     Dict(<<Item(Str("x"), Str("oops"))>>),
     Dict(<<Item(PyInt("7"), Str("oops"))>>)}
MalformedItems == {Item(k, v) : k \in MalformedKeys, v \in MalformedValues}
Malformed ==
    {PyNone, PyList} \cup
    {Dict(items) : items \in {q \in Arrangements(MalformedItems, MaxKeys) :
                                \A i, j \in DOMAIN q : i < j => q[i].key # q[j].key}}

\* ----------------------------------------------------------------- errors
\* A message is what the format string gives: its literal pieces and, for
\* every replacement field an f-string evaluates, the value put there.
Lit(s) == [lit |-> s]
Val(v) == [val |-> v]
TypeOf(v) == [val |-> [type |-> "type", value |-> v.type]]
DagsterInvalidDefinitionError(message) ==
    [exception |-> "DagsterInvalidDefinitionError", message |-> message]
CheckError(message) == [exception |-> "CheckError", message |-> message]
Raises(e) == e.exception # ""

\* ------------------------------------------------ validate_dependency_dict
prelude ==
    Lit("The expected type for \"dependencies\" is Dict[Union[str, NodeInvocation], Dict[str, DependencyDefinition]]. ")

\* Lines 73-85: the first error among the items of the inner dict of `key`.
RECURSIVE validate_inputs(_, _)
validate_inputs(key, items) ==
    IF items = <<>> THEN NoError
    ELSE LET input_key == Head(items).key
             dep == Head(items).value
         IN  IF input_key.type # "str"
             THEN DagsterInvalidDefinitionError(
                    <<prelude, Lit("Received non-string key in the inner dict for key "),
                      Val(key), Lit(". Unexpected inner dict key type: "), TypeOf(input_key)>>)
             ELSE IF ~IsDependencyDefinition(dep)
             THEN DagsterInvalidDefinitionError(
                    <<prelude, Lit("Expected IDependencyDefinition for node \""), Val(key),
                      Lit("\" input \""), Val(input_key), Lit("\". Received value "),
                      Val(dep), Lit(" of type "), TypeOf(dep), Lit(".")>>)
             ELSE validate_inputs(key, Tail(items))

\* Lines 51-85: the first error among the items of the mapping.
RECURSIVE validate_items(_)
validate_items(items) ==
    IF items = <<>> THEN NoError
    ELSE LET key == Head(items).key
             dep_dict == Head(items).value
         IN  IF key.type \notin {"str", "NodeInvocation"}
             THEN DagsterInvalidDefinitionError(
                    <<prelude,
                      Lit("Expected str or NodeInvocation key in the top level dict. Received value {key} of type {type(key)}")>>)
             ELSE IF dep_dict.type # "dict"
             THEN IF IsDependencyDefinition(dep_dict)
                  THEN DagsterInvalidDefinitionError(
                         <<prelude,
                           Lit("Received a IDependencyDefinition one layer too high under key "),
                           Val(key),
                           Lit(". The DependencyDefinition should be moved in to a dict keyed on input name.")>>)
                  ELSE DagsterInvalidDefinitionError(
                         <<prelude, Lit("Under key "), Val(key), Lit(" received value "),
                           Val(dep_dict), Lit(" of type "), TypeOf(dep_dict),
                           Lit(". Expected dict[str, DependencyDefinition]")>>)
             ELSE LET inner == validate_inputs(key, dep_dict.items)
                  IN  IF Raises(inner) THEN inner ELSE validate_items(Tail(items))

\* The error validate_dependency_dict raises for a value, NoError when it
\* returns.
validate_dependency_dict_error(value) ==
    IF value.type = "NoneType" THEN NoError
    ELSE IF value.type # "dict"
    THEN DagsterInvalidDefinitionError(
           <<prelude,
             Lit("Received value {dependencies} of type {type(dependencies)} at the top level.")>>)
    ELSE validate_items(value.items)

\* What validate_dependency_dict returns for a value it accepts.
validate_dependency_dict(value) ==
    IF value.type = "NoneType" THEN Dict(<<>>) ELSE value

\* ---------------------------------------------- create_execution_structure
\* Lines 139-145: the parameter checks that look at the mapping.
check_params(deps) ==
    /\ deps.type = "dict"
    /\ \A i \in DOMAIN deps.items :
        /\ deps.items[i].key.type \in {"str", "NodeInvocation"}
        /\ deps.items[i].value.type = "dict"

\* Lines 160-163.
solid_key_invoc(solid_key) ==
    IF solid_key.type # "NodeInvocation"
    THEN NodeInvocation(solid_key.value, NoAlias, {}, {}, NoPolicy)
    ELSE solid_key
alias_of(invocation) ==
    IF invocation.alias # NoAlias THEN invocation.alias ELSE invocation.name

\* The four locals of lines 149-154.
Indexes(aliased, names, instances, alias_names) ==
    [aliased_dependencies_dict |-> aliased, name_to_aliases |-> names,
     alias_to_solid_instance |-> instances, alias_to_name |-> alias_names]

\* Lines 156-168: the loop over the items of dependencies_dict.
RECURSIVE index_invocations(_, _)
index_invocations(items, acc) ==
    IF items = <<>> THEN acc
    ELSE LET invocation == solid_key_invoc(Head(items).key)
             input_dep_dict == Head(items).value
             alias == alias_of(invocation)
         IN  index_invocations(
                Tail(items),
                Indexes(DictSet(acc.aliased_dependencies_dict, alias, input_dep_dict),
                        DictSet(acc.name_to_aliases, invocation.name,
                                DictGet(acc.name_to_aliases, invocation.name, {}) \cup {alias}),
                        DictSet(acc.alias_to_solid_instance, alias, invocation),
                        DictSet(acc.alias_to_name, alias, invocation.name)))

\* --------------------------------------------------- _build_graph_node_dict
GRAPH_DEFINITION == "graph_definition"    \* the graph the nodes are built for
Node(class, name, definition, tags, hook_defs, retry_policy) ==
    [class |-> class, name |-> name, definition |-> definition,
     graph_definition |-> GRAPH_DEFINITION, tags |-> tags, hook_defs |-> hook_defs,
     retry_policy |-> retry_policy]

\* Lines 196-221: the node of one alias of node_def; a definition that is
\* neither a graph nor an op fails the check of line 221.
NoInvocation == NodeInvocation("", NoAlias, {}, {}, NoPolicy)
node_class(node_def) ==
    IF node_def.class = "GraphDefinition" THEN "GraphNode"
    ELSE IF node_def.class = "OpDefinition" THEN "OpNode"
    ELSE "check.failed"
build_node(node_def, alias, instances) ==
    IF DictHas(instances, alias)
    THEN LET node_invocation == DictGet(instances, alias, NoInvocation)
         IN  Node(node_class(node_def), alias, node_def, node_invocation.tags,
                  node_invocation.hook_defs, node_invocation.retry_policy)
    ELSE Node(node_class(node_def), alias, node_def, {}, {}, NoPolicy)

\* Line 193.
uses_of_node(node_def, names) == DictGet(names, node_def.name, {node_def.name})

\* The orders in which `for alias in uses_of_node` can visit a set.
Iterations(S) == {q \in Arrangements(S, Cardinality(S)) : Len(q) = Cardinality(S)}

\* Mutant: the loop over the aliases of a definition stops after the first.
RECURSIVE build_nodes_first_alias(_, _, _)
build_nodes_first_alias(defs, orders, instances) ==
    IF defs = <<>> THEN <<>>
    ELSE <<build_node(Head(defs), Head(orders)[1], instances)>>
         \o build_nodes_first_alias(Tail(defs), Tail(orders), instances)

\* Lines 192-222: the list `nodes`, one order of the aliases per definition;
\* orders[i] is the order in which the aliases of node_defs[i] are visited.
RECURSIVE build_nodes(_, _, _)
build_nodes(defs, orders, instances) ==
    IF defs = <<>> THEN <<>>
    ELSE [i \in DOMAIN Head(orders) |-> build_node(Head(defs), Head(orders)[i], instances)]
         \o build_nodes(Tail(defs), Tail(orders), instances)

\* Line 224: {node.name: node for node in nodes}.
RECURSIVE dict_of_nodes(_, _)
dict_of_nodes(nodes, acc) ==
    IF nodes = <<>> THEN acc
    ELSE dict_of_nodes(Tail(nodes), DictSet(acc, Head(nodes).name, Head(nodes)))

\* The node dicts _build_graph_node_dict can return: one per way of visiting
\* the alias sets.
_build_graph_node_dict(defs, names, instances) ==
    {dict_of_nodes(build_nodes(defs, orders, instances), <<>>) :
        orders \in {o \in [DOMAIN defs -> UNION {Iterations(uses_of_node(defs[i], names)) :
                                                   i \in DOMAIN defs}] :
                      \A i \in DOMAIN defs : o[i] \in Iterations(uses_of_node(defs[i], names))}}

\* ---------------------------------------------------- _validate_dependencies
\* Mutant: the self-reference check is left out.
is_circular_never(from_node, dep) == FALSE

\* Line 235.
is_circular(from_node, dep) == from_node = dep.node

\* Mutant: the aliasing is never named.
is_aliased_never(aliased_node, from_node) == FALSE

\* Lines 243-248: the else branch names the definition the key is an alias of.
is_aliased(aliased_node, from_node) == aliased_node # from_node

\* Mutant: every dependency onto an input that takes no list is rejected.
illegal_fan_in_any(dep_def, input_def) == ~input_def.supports_fan_in

\* Line 282.
illegal_fan_in(dep_def, input_def) ==
    is_fan_in(dep_def) /\ ~input_def.supports_fan_in

NoNode == Node("", "", NodeDefinition("", "", <<>>, {}), {}, {}, NoPolicy)
NoName == "None"      \* alias_to_name.get() of a key that is not there

\* Lines 235-288: the checks of one producer `dep` of the dependency
\* definition `dep_def` bound to input `from_input` of node `from_node`.
check_dependency(from_node, from_input, dep_def, dep, nodes, alias_names) ==
    LET node == DictGet(nodes, from_node, NoNode)
        producer == DictGet(nodes, dep.node, NoNode)
        aliased_node == DictGet(alias_names, from_node, NoName)
        input_def == input_def_named(node.definition, from_input)
    IN  IF is_circular(from_node, dep)
        THEN DagsterInvalidDefinitionError(
               <<Lit("Invalid dependencies: circular reference detected in node \""),
                 Val(from_node), Lit("\" input \""), Val(from_input), Lit("\"")>>)
        ELSE IF ~DictHas(nodes, from_node)
        THEN IF ~is_aliased(aliased_node, from_node)
             THEN DagsterInvalidDefinitionError(
                    <<Lit("Invalid dependencies: node \""), Val(from_node),
                      Lit("\" in dependency dictionary not found in node list")>>)
             ELSE DagsterInvalidDefinitionError(
                    <<Lit("Invalid dependencies: node \""), Val(aliased_node),
                      Lit("\" (aliased by \""), Val(from_node),
                      Lit("\" in dependency dictionary) not found in node list")>>)
        ELSE IF ~has_input(node.definition, from_input)
        THEN DagsterInvalidDefinitionError(
               <<Lit("Invalid dependencies: "),
                 Val(IF node.definition.class = "GraphDefinition" THEN "graph" ELSE "op"),
                 Lit(" \""), Val(from_node), Lit("\" does not have input \""),
                 Val(from_input), Lit("\". Available inputs: "),
                 [vals |-> input_names(node.definition)]>>)
        ELSE IF ~DictHas(nodes, dep.node)
        THEN DagsterInvalidDefinitionError(
               <<Lit("Invalid dependencies: node \""), Val(dep.node),
                 Lit("\" not found in node list. Listed as dependency for node \""),
                 Val(from_node), Lit("\" input \""), Val(from_input), Lit("\" ")>>)
        ELSE IF ~has_output(producer.definition, dep.output)
        THEN DagsterInvalidDefinitionError(
               <<Lit("Invalid dependencies: node \""), Val(dep.node),
                 Lit("\" does not have output \""), Val(dep.output),
                 Lit("\". Listed as dependency for node \""), Val(from_node),
                 Lit(" input \""), Val(from_input), Lit("\"")>>)
        ELSE IF illegal_fan_in(dep_def, input_def)
        THEN DagsterInvalidDefinitionError(
               <<Lit("Invalid dependencies: for node \""), Val(dep.node),
                 Lit("\" input \""), Val(input_def.name), Lit("\", the DagsterType \""),
                 Val(input_def.display_name),
                 Lit("\" does not support fanning in (MultiDependencyDefinition). Use the List type, since fanning in will result in a list.")>>)
        ELSE NoError

\* Line 234: the first error among the producers of one dependency definition.
RECURSIVE validate_producers(_, _, _, _, _, _)
validate_producers(from_node, from_input, dep_def, deps, nodes, alias_names) ==
    IF deps = <<>> THEN NoError
    ELSE LET e == check_dependency(from_node, from_input, dep_def, Head(deps), nodes,
                                   alias_names)
         IN  IF Raises(e) THEN e
             ELSE validate_producers(from_node, from_input, dep_def, Tail(deps), nodes,
                                     alias_names)

\* Line 233: the first error among the inputs of one node.
RECURSIVE validate_dep_by_input(_, _, _, _)
validate_dep_by_input(from_node, items, nodes, alias_names) ==
    IF items = <<>> THEN NoError
    ELSE LET dep_def == Head(items).value
             e == validate_producers(from_node, Head(items).key.value, dep_def,
                                     get_node_dependencies(dep_def), nodes, alias_names)
         IN  IF Raises(e) THEN e
             ELSE validate_dep_by_input(from_node, Tail(items), nodes, alias_names)

\* Line 232: the error _validate_dependencies raises, NoError when it returns.
RECURSIVE _validate_dependencies(_, _, _)
_validate_dependencies(deps, nodes, alias_names) ==
    IF deps = <<>> THEN NoError
    ELSE LET e == validate_dep_by_input(Head(deps).key, Head(deps).value.items, nodes,
                                        alias_names)
         IN  IF Raises(e) THEN e
             ELSE _validate_dependencies(Tail(deps), nodes, alias_names)

\* ------------------------------------------ DependencyStructure.from_definitions
\* The resolved graph: for every (node, input) of the mapping the producers
\* bound to it.
from_definitions(nodes, deps) ==
    UNION {{LET dep_def == deps[i].value.items[j].value
                producers == get_node_dependencies(dep_def)
            IN  [node |-> deps[i].key, input |-> deps[i].value.items[j].key.value,
                 producers |-> [k \in DOMAIN producers |->
                                  [node |-> producers[k].node, output |-> producers[k].output]],
                 fan_in |-> is_fan_in(dep_def)]
            : j \in DOMAIN deps[i].value.items}
           : i \in DOMAIN deps}

\* ------------------------------------------------------------ the resolution
NoIndexes == Indexes(<<>>, <<>>, <<>>, <<>>)

\* Lines 33-87: the graph definition validates the mapping it was given.
ValidateDependencyDict ==
    /\ rpc = "start"
    /\ LET e == validate_dependency_dict_error(dependencies)
       IN  IF Raises(e)
           THEN /\ rpc' = "rejected"
                /\ error' = e
                /\ UNCHANGED dependencies_dict
           ELSE /\ rpc' = "validated"
                /\ dependencies_dict' = validate_dependency_dict(dependencies)
                /\ UNCHANGED error
    /\ UNCHANGED <<node_defs, dependencies, aliased_dependencies_dict, name_to_aliases,
                   alias_to_solid_instance, alias_to_name, node_dict,
                   dependency_structure, previous>>
    /\ UNCHANGED monitor_vars

\* Lines 90-180: one call of create_execution_structure on the validated
\* mapping.
CreateExecutionStructure ==
    /\ rpc = "validated"
    /\ IF ~check_params(dependencies_dict)
       THEN /\ rpc' = "raised"
            /\ error' = CheckError(<<Lit("Param \"dependencies_dict\" is not a dict of the expected types")>>)
            /\ UNCHANGED <<aliased_dependencies_dict, name_to_aliases,
                           alias_to_solid_instance, alias_to_name, node_dict,
                           dependency_structure>>
       ELSE LET ix == index_invocations(dependencies_dict.items, NoIndexes)
            IN  /\ aliased_dependencies_dict' = ix.aliased_dependencies_dict
                /\ name_to_aliases' = ix.name_to_aliases
                /\ alias_to_solid_instance' = ix.alias_to_solid_instance
                /\ alias_to_name' = ix.alias_to_name
                /\ IF \E i \in DOMAIN node_defs : node_class(node_defs[i]) = "check.failed"
                   THEN /\ rpc' = "raised"
                        /\ error' = CheckError(<<Lit("Unexpected node_def type")>>)
                        /\ UNCHANGED <<node_dict, dependency_structure>>
                   ELSE \E nodes \in _build_graph_node_dict(node_defs, ix.name_to_aliases,
                                                            ix.alias_to_solid_instance) :
                        LET e == _validate_dependencies(ix.aliased_dependencies_dict, nodes,
                                                        ix.alias_to_name)
                        IN  /\ node_dict' = nodes
                            /\ error' = e
                            /\ IF Raises(e)
                               THEN rpc' = "raised" /\ UNCHANGED dependency_structure
                               ELSE /\ rpc' = "returned"
                                    /\ dependency_structure' =
                                         from_definitions(nodes, ix.aliased_dependencies_dict)
    /\ UNCHANGED <<node_defs, dependencies, dependencies_dict, previous>>
    /\ UNCHANGED monitor_vars

\* The same definitions and mapping are resolved once more.
ResolveAgain ==
    /\ rpc = "returned"
    /\ ~previous.returned
    /\ previous' = [returned |-> TRUE, dependency_structure |-> dependency_structure,
                    node_dict |-> node_dict]
    /\ rpc' = "validated"
    /\ aliased_dependencies_dict' = <<>>
    /\ name_to_aliases' = <<>>
    /\ alias_to_solid_instance' = <<>>
    /\ alias_to_name' = <<>>
    /\ node_dict' = <<>>
    /\ dependency_structure' = {}
    /\ error' = NoError
    /\ UNCHANGED <<node_defs, dependencies, dependencies_dict>>
    /\ UNCHANGED monitor_vars

\* The monitor at rest: the state of the monitor in the resolver's
\* specification.
MonitorOff ==
    /\ instance = [supports_check_run_worker_health |-> FALSE,
                   supports_resume_run |-> FALSE,
                   run_monitoring_start_timeout_seconds |-> 2,
                   run_monitoring_max_resume_run_attempts |-> 0]
    /\ runs = [r \in RunIds |-> [status |-> "SUCCESS", launch_time |-> 0, start_time |-> 0,
                                 tags |-> {}, log |-> <<>>]]
    /\ Idle

InitResolver ==
    /\ MonitorOff
    /\ node_defs \in NodeDefLists
    /\ dependencies \in DependencyDicts \cup Malformed
    /\ rpc = "start"
    /\ dependencies_dict = PyNone
    /\ previous = NoResult
    /\ NotCalled

NextResolver ==
    \/ ValidateDependencyDict
    \/ CreateExecutionStructure
    \/ ResolveAgain

SpecResolver == InitResolver /\ [][NextResolver]_vars


\* ------------------------------------------------------------------ claims
\* What the claims say of the run handled last.
Count(op) == Cardinality({i \in DOMAIN calls : calls[i].op = op})
Requested(op) == \E i \in DOMAIN calls : calls[i].op = op
Completed(op) == \E i \in DOMAIN calls : calls[i].op = op /\ calls[i].ok
Raised(op) == \E i \in DOMAIN calls : calls[i].op = op /\ ~calls[i].ok
TheCall(op) == calls[CHOOSE i \in DOMAIN calls : calls[i].op = op]
Answered(op) == Requested(op) /\ TheCall(op).ok
LastYield == yielded[Len(yielded)]
EventCount(msg) ==
    Cardinality({i \in DOMAIN calls :
                    calls[i].op = "report_engine_event" /\ calls[i].arg = msg})

\* An exception left the handler of the run handled last: a call other than
\* terminate raised, or the run stats carried no launch time.
AttemptRaised ==
    \/ \E i \in DOMAIN calls : ~calls[i].ok /\ calls[i].op # "terminate"
    \/ Answered("get_run_stats") /\ TheCall("get_run_stats").num = None

\* The health check answered that the worker is neither RUNNING nor SUCCESS,
\* and the event log and the re-fetched status were read.
ReportedUnhealthy ==
    /\ run_record.status = "STARTED"
    /\ Answered("check_run_worker_health")
    /\ TheCall("check_run_worker_health").arg \notin {"RUNNING", "SUCCESS"}
    /\ Answered("all_logs")
    /\ Answered("get_run_by_id")
StatusUnchanged == TheCall("get_run_by_id").arg = run_record.status
PriorCount == TheCall("all_logs").num
MaxResume == instance.run_monitoring_max_resume_run_attempts

\* C1: when handling a run raises, the runs after it in the fetched list are
\* still handled in the same iteration (the generator ends only past the last
\* record), and the run that raised has exactly one error record.
C1_FailureDoesNotBlock ==
    \A i \in DOMAIN yielded :
        yielded[i].marker = "error" =>
            /\ pc = "done" =>
                \A j \in (i + 1) .. Len(run_records) :
                    j \in DOMAIN yielded /\ yielded[j].run_id = run_records[j].run_id
            /\ pc # "done" => idx <= Len(run_records)
            /\ Cardinality({k \in DOMAIN yielded :
                    yielded[k].run_id = yielded[i].run_id /\ yielded[k].marker = "error"}) = 1

C1_Witness ==
    /\ pc = "done"
    /\ Len(yielded) = 2
    /\ yielded[1].marker = "error"
    /\ Requested("get_run_stats") \/ Requested("check_run_worker_health")

C3_StartTimeout ==
    ( /\ run_record.status = "STARTING"
      /\ instance.supports_check_run_worker_health
      /\ Answered("get_run_stats")
      /\ TheCall("get_run_stats").num # None
      /\ now - TheCall("get_run_stats").num >= instance.run_monitoring_start_timeout_seconds )
    => /\ Count("report_run_failed") = 1
       /\ TheCall("report_run_failed").run_id = run_record.run_id
       /\ TheCall("report_run_failed").arg = "start_timeout"

C3_Witness ==
    /\ iter >= 1
    /\ run_record.status = "STARTING"
    /\ Answered("get_run_stats")
    /\ TheCall("get_run_stats").num # None
    /\ now - TheCall("get_run_stats").num = instance.run_monitoring_start_timeout_seconds
    /\ Count("report_run_failed") = 1

\* C4 as stated: unhealthy, status unchanged, prior count below the maximum:
\* exactly one resume_run with attempt number prior + 1 and exactly one engine
\* event with the resume marker message.
C4_Original ==
    (ReportedUnhealthy /\ StatusUnchanged /\ PriorCount < MaxResume)
    => /\ Count("resume_run") = 1
       /\ TheCall("resume_run").num = PriorCount + 1
       /\ EventCount(RESUME_RUN_LOG_MESSAGE) = 1

\* C4 amended: the monitor requests exactly one engine event announcing the
\* resumption, whose message is not the resume marker message, and none with
\* the marker message; when that event is recorded it requests exactly one
\* resume_run, with attempt number prior + 1, and none when the event raises.
C4_Resume ==
    (ReportedUnhealthy /\ StatusUnchanged /\ PriorCount < MaxResume)
    => /\ EventCount(RESUMING_MESSAGE) = 1
       /\ RESUMING_MESSAGE # RESUME_RUN_LOG_MESSAGE
       /\ EventCount(RESUME_RUN_LOG_MESSAGE) = 0
       /\ calls[4].op = "report_engine_event"
       /\ calls[4].ok =>
            /\ Count("resume_run") = 1
            /\ TheCall("resume_run").num = PriorCount + 1
            /\ TheCall("resume_run").run_id = run_record.run_id
       /\ ~calls[4].ok => Count("resume_run") = 0
       /\ Count("report_run_failed") = 0

C4_Witness ==
    /\ ReportedUnhealthy /\ StatusUnchanged
    /\ PriorCount = 1
    /\ Completed("resume_run")
    /\ TheCall("resume_run").num = 2

\* C5: unhealthy, status unchanged, prior count at or above the maximum: exactly
\* one report_run_failed request and no resume_run; the message is the
\* surpassed-maximum-attempts one when the launcher supports resume, the plain
\* one when it does not.
C5_ResumeBudgetSpent ==
    (ReportedUnhealthy /\ StatusUnchanged /\ PriorCount >= MaxResume)
    => /\ Count("report_run_failed") = 1
       /\ Count("resume_run") = 0
       /\ TheCall("report_run_failed").run_id = run_record.run_id
       /\ TheCall("report_run_failed").arg =
            (IF instance.supports_resume_run THEN "surpassed_maximum_attempts"
             ELSE "marking_failed")

C5_Witness ==
    /\ ReportedUnhealthy /\ StatusUnchanged
    /\ PriorCount >= 1
    /\ PriorCount = MaxResume
    /\ instance.supports_resume_run
    /\ TheCall("report_run_failed").arg = "surpassed_maximum_attempts"

\* C6: unhealthy and the re-fetched status differs from the fetched one: no
\* resume_run, no report_run_failed, no engine event, and the run yields the
\* empty marker.
C6_StaleStatusSkipped ==
    (ReportedUnhealthy /\ ~StatusUnchanged)
    => /\ Count("resume_run") = 0
       /\ Count("report_run_failed") = 0
       /\ Count("report_engine_event") = 0
       /\ LastYield.run_id = run_record.run_id
       /\ LastYield.marker = "None"

C6_Witness ==
    /\ ReportedUnhealthy
    /\ TheCall("get_run_by_id").arg = "CANCELING"
    /\ LastYield.marker = "None"


\* A call of the health branch (lines 67-107) raised.
HealthBranchRaised ==
    \/ Raised("check_run_worker_health") \/ Raised("all_logs") \/ Raised("get_run_by_id")
    \/ Raised("resume_run") \/ Raised("report_run_failed")
    \/ \E i \in DOMAIN calls :
        calls[i].op = "report_engine_event" /\ calls[i].arg = RESUMING_MESSAGE /\ ~calls[i].ok

\* C7 as stated: every run handled as STARTED has its max-runtime check run,
\* whatever the health branch did without raising, the stale-status skip
\* included.
C7_Original ==
    (run_record.status = "STARTED" /\ ~HealthBranchRaised) => handled

\* C7 amended: the max-runtime check of a STARTED run runs exactly when the
\* health branch neither raised nor returned early because the re-fetched
\* status differs; it runs with or without health-check support and after a
\* healthy answer, a resume request or a failure report.
C7_MaxRuntimeChecked ==
    run_record.status = "STARTED" =>
        (handled <=> (~HealthBranchRaised /\ ~(ReportedUnhealthy /\ ~StatusUnchanged)))

C7_Witness ==
    /\ run_record.status = "STARTED"
    /\ handled
    /\ Completed("resume_run")
    /\ Requested("terminate")

\* The budget as C8 states it.
C8_Budget ==
    IF \E p \in run_record.tags : p[1] = MAX_RUNTIME_TAG
    THEN float((CHOOSE p \in run_record.tags : p[1] = MAX_RUNTIME_TAG)[2])
    ELSE 43200

\* C8: in the max-runtime check, terminate is requested once exactly when the
\* record has a start time and now - start time is strictly above the budget
\* (the tag's value, or 43200 without a tag), and never without a start time.
C8_Terminate ==
    (run_record.status = "STARTED" /\ handled)
    => /\ Count("terminate") <= 1
       /\ Count("terminate") = 1 <=>
            (run_record.start_time # None /\ now - run_record.start_time > C8_Budget)
       /\ run_record.start_time = None => Count("terminate") = 0

C8_Witness ==
    /\ run_record.status = "STARTED" /\ handled
    /\ run_record.tags = {}
    /\ now - run_record.start_time = 43201
    /\ Count("terminate") = 1

\* C9: whenever terminate raises, the monitor requests one engine event with
\* the termination error and then report_run_canceled with reason TIMED_OUT.
C9_Original ==
    Raised("terminate")
    => /\ EventCount(TERMINATE_FAILED_MESSAGE) = 1
       /\ Count("report_run_canceled") = 1
       /\ TheCall("report_run_canceled").arg = "TIMED_OUT"

\* C10 as stated: when an error record is yielded for a run, no
\* report_run_failed, report_run_canceled or resume_run completed for it.
C10_Original ==
    (yielded # <<>> /\ LastYield.marker = "error")
    => /\ ~Completed("report_run_failed")
       /\ ~Completed("report_run_canceled")
       /\ ~Completed("resume_run")

\* C10 amended: when an error record is yielded for a run, report_run_canceled
\* did not complete for it; if the exception was raised before the max-runtime
\* check was entered, no report_run_failed or resume_run completed either and
\* the stored status is what it was before; if it was raised in the max-runtime
\* check, the stored status changed only by a report_run_failed of the health
\* branch that had completed.
C10_FailedAttempt ==
    [][ (yielded' # yielded /\ yielded' # <<>> /\ LastYield'.marker = "error")
        => LET r == run_record'.run_id
           IN  /\ ~Completed("report_run_canceled")'
               /\ ~handled' =>
                    /\ ~Completed("report_run_failed")'
                    /\ ~Completed("resume_run")'
                    /\ runs'[r].status = runs[r].status
               /\ handled' =>
                    \/ runs'[r].status = runs[r].status
                    \/ Completed("report_run_failed")' /\ runs'[r].status = "FAILURE"
      ]_vars

C10_Witness ==
    /\ yielded # <<>>
    /\ LastYield.marker = "error"
    /\ ~handled
    /\ Completed("report_engine_event")
    /\ Raised("resume_run")

\* C11: when the record handled has a status other than STARTING, STARTED or
\* CANCELING, the failure leaves execute_monitoring_iteration: the generator
\* ends with the error, and no error record is yielded for that run.
C11_Original ==
    (run_record # NoRecord /\ run_record.status \notin {"STARTING", "STARTED", "CANCELING"})
    => /\ pc = "raised"
       /\ \A i \in DOMAIN yielded : yielded[i].run_id # run_record.run_id

\* ------------------------------------------------------ claims: the resolver
\* create_execution_structure has been called and has ended.
Ended == rpc \in {"raised", "returned"}
NodeNamesBuilt == DictKeys(node_dict)

\* The alias a key of the mapping resolves to: the key itself for a string,
\* the explicit alias of an invocation, or its definition name without one.
KeyAlias(k) ==
    IF k.type = "str" THEN k.value
    ELSE IF k.alias # "" THEN k.alias
    ELSE k.name

\* The bindings of a mapping, keyed by alias or by key: <<i, j, k>> is
\* producer k of the dependency definition of input j of item i, and the scan
\* order is the order of these triples.
Positions(items) ==
    UNION {UNION {{<<i, j, k>> : k \in DOMAIN get_node_dependencies(items[i].value.items[j].value)}
                  : j \in DOMAIN items[i].value.items}
           : i \in DOMAIN items}
Earlier(p, q) ==
    \/ p[1] < q[1]
    \/ p[1] = q[1] /\ p[2] < q[2]
    \/ p[1] = q[1] /\ p[2] = q[2] /\ p[3] < q[3]
Binding(items, node, p) ==
    LET bound == items[p[1]].value.items[p[2]]
        producer == get_node_dependencies(bound.value)[p[3]]
    IN  [node |-> node, input |-> bound.key.value,
         fan_in |-> bound.value.type = "MultiDependencyDefinition",
         producer |-> producer.node, output |-> producer.output]
\* Binding p of the mapping as re-keyed by alias.
Edge(p) == Binding(aliased_dependencies_dict, aliased_dependencies_dict[p[1]].key, p)
EdgePositions == Positions(aliased_dependencies_dict)
\* Binding p of the mapping as given.
GivenEdge(p) ==
    Binding(dependencies_dict.items, KeyAlias(dependencies_dict.items[p[1]].key), p)
GivenPositions == Positions(dependencies_dict.items)

\* The rules a binding can break, against the nodes built.
DefinitionOf(name) == node_dict[CHOOSE i \in DOMAIN node_dict : node_dict[i].key = name].value.definition
InputsOf(name) ==
    {DefinitionOf(name).input_dict[i].name : i \in DOMAIN DefinitionOf(name).input_dict}
TakesList(name, input) ==
    \E i \in DOMAIN DefinitionOf(name).input_dict :
        /\ DefinitionOf(name).input_dict[i].name = input
        /\ DefinitionOf(name).input_dict[i].supports_fan_in
Circular(e) == e.node = e.producer
UnknownConsumer(e) == e.node \notin NodeNamesBuilt
MissingInput(e) == e.node \in NodeNamesBuilt /\ e.input \notin InputsOf(e.node)
UnknownProducer(e) == e.producer \notin NodeNamesBuilt
MissingOutput(e) ==
    e.producer \in NodeNamesBuilt /\ e.output \notin DefinitionOf(e.producer).outputs
IllegalFanIn(e) ==
    /\ e.fan_in
    /\ e.node \in NodeNamesBuilt
    /\ e.input \in InputsOf(e.node)
    /\ ~TakesList(e.node, e.input)
Violates(e) ==
    \/ Circular(e) \/ UnknownConsumer(e) \/ MissingInput(e)
    \/ UnknownProducer(e) \/ MissingOutput(e) \/ IllegalFanIn(e)
\* p is the first binding in scan order, of the re-keyed mapping, that breaks
\* a rule.
FirstViolation(p) ==
    /\ p \in EdgePositions
    /\ Violates(Edge(p))
    /\ \A q \in EdgePositions : Earlier(q, p) => ~Violates(Edge(q))

\* What a message says: its first piece, and the values put into it.
Opening(e) == e.message[1].lit
IsDefinitionError(e) == e.exception = "DagsterInvalidDefinitionError"
CIRCULAR == "Invalid dependencies: circular reference detected in node \""
IsCircularError(e, node, input) ==
    /\ IsDefinitionError(e)
    /\ Opening(e) = CIRCULAR
    /\ e.message[2] = [val |-> node]
    /\ e.message[4] = [val |-> input]

\* C12 as stated: whenever the mapping binds an input of some node X to an
\* output of X itself, directly or as a member of a fan-in list,
\* create_execution_structure fails with the circular-reference error that
\* names such an X and the input, and returns no structure.
C12_Original ==
    (Ended /\ \E p \in GivenPositions : Circular(GivenEdge(p)))
    => /\ rpc = "raised"
       /\ dependency_structure = {}
       /\ \E p \in GivenPositions :
            /\ Circular(GivenEdge(p))
            /\ IsCircularError(error, GivenEdge(p).node, GivenEdge(p).input)

\* C12 amended: when the first binding in scan order that breaks a rule, in
\* the mapping as re-keyed by alias, binds an input of node X to an output of
\* X, the call fails with the circular-reference error naming X and that
\* input, and returns no structure.
C12_CircularReference ==
    Ended =>
        \A p \in EdgePositions :
            (FirstViolation(p) /\ Circular(Edge(p)))
            => /\ rpc = "raised"
               /\ dependency_structure = {}
               /\ IsCircularError(error, Edge(p).node, Edge(p).input)

C12_Witness ==
    /\ rpc = "raised"
    /\ \E p \in EdgePositions :
        /\ p[3] = 2
        /\ FirstViolation(p)
        /\ Circular(Edge(p))
        /\ IsCircularError(error, Edge(p).node, Edge(p).input)

\* The unknown-node messages: a key that names no node, a key whose alias
\* names no node, and a producer that names no node.
UNKNOWN_NODE == "Invalid dependencies: node \""
IsUnknownKeyError(e, node) ==
    /\ IsDefinitionError(e)
    /\ Len(e.message) = 3
    /\ Opening(e) = UNKNOWN_NODE
    /\ e.message[2] = [val |-> node]
    /\ e.message[3] = [lit |-> "\" in dependency dictionary not found in node list"]
IsUnknownAliasError(e, name, alias) ==
    /\ IsDefinitionError(e)
    /\ Len(e.message) = 5
    /\ Opening(e) = UNKNOWN_NODE
    /\ e.message[2] = [val |-> name]
    /\ e.message[3] = [lit |-> "\" (aliased by \""]
    /\ e.message[4] = [val |-> alias]
IsUnknownProducerError(e, producer, node, input) ==
    /\ IsDefinitionError(e)
    /\ Len(e.message) = 7
    /\ Opening(e) = UNKNOWN_NODE
    /\ e.message[2] = [val |-> producer]
    /\ e.message[3] = [lit |-> "\" not found in node list. Listed as dependency for node \""]
    /\ e.message[4] = [val |-> node]
    /\ e.message[6] = [val |-> input]
IsUnknownNodeError(e) ==
    /\ IsDefinitionError(e)
    /\ Opening(e) = UNKNOWN_NODE
    /\ e.message[3].lit \in
         {"\" in dependency dictionary not found in node list",
          "\" (aliased by \"",
          "\" not found in node list. Listed as dependency for node \""}

\* The definition name a key of the mapping invokes, and the names of the
\* definitions supplied.
KeyName(k) == IF k.type = "str" THEN k.value ELSE k.name
Supplied == {node_defs[i].name : i \in DOMAIN node_defs}
\* The definition name the alias `node` of the re-keyed mapping stands for.
NameOf(node) == DictGet(alias_to_name, node, NoName)

\* C13 as stated: whenever a key of the mapping invokes a definition name
\* that is not among the supplied definitions, or a dependency names a
\* producer that is not a node, create_execution_structure fails with an
\* unknown-node error.
C13_Original ==
    (/\ Ended
     /\ \/ \E i \in DOMAIN dependencies_dict.items :
             KeyName(dependencies_dict.items[i].key) \notin Supplied
        \/ \E p \in GivenPositions : UnknownProducer(GivenEdge(p)))
    => rpc = "raised" /\ IsUnknownNodeError(error)

\* C13 amended: when the first binding in scan order that breaks a rule, in
\* the mapping as re-keyed by alias, is no self-reference and its consuming
\* node is not among the nodes built, the call fails with the unknown-node
\* error for that key, which names the alias and the definition name when the
\* two differ; when its consuming node is built and has the input, and its
\* producer is not among the nodes built, the call fails with the
\* unknown-node error that names the producer.
C13_UnknownNode ==
    Ended =>
        \A p \in EdgePositions :
            (FirstViolation(p) /\ ~Circular(Edge(p)))
            => /\ UnknownConsumer(Edge(p))
                  => /\ rpc = "raised"
                     /\ dependency_structure = {}
                     /\ IF NameOf(Edge(p).node) = Edge(p).node
                        THEN IsUnknownKeyError(error, Edge(p).node)
                        ELSE IsUnknownAliasError(error, NameOf(Edge(p).node), Edge(p).node)
               /\ (~UnknownConsumer(Edge(p)) /\ ~MissingInput(Edge(p))
                   /\ UnknownProducer(Edge(p)))
                  => /\ rpc = "raised"
                     /\ dependency_structure = {}
                     /\ IsUnknownProducerError(error, Edge(p).producer, Edge(p).node,
                                               Edge(p).input)

C13_Witness ==
    /\ rpc = "raised"
    /\ \E p \in EdgePositions :
        /\ FirstViolation(p)
        /\ ~Circular(Edge(p))
        /\ UnknownConsumer(Edge(p))
        /\ NameOf(Edge(p).node) # Edge(p).node
        /\ IsUnknownAliasError(error, NameOf(Edge(p).node), Edge(p).node)

\* The fan-in message: the input and the display name of its type.
FAN_IN == "Invalid dependencies: for node \""
IsFanInError(e) == IsDefinitionError(e) /\ Opening(e) = FAN_IN
FanInErrorNames(e, input, display_name) ==
    /\ IsFanInError(e)
    /\ e.message[4] = [val |-> input]
    /\ e.message[6] = [val |-> display_name]
DisplayName(name, input) == input_def_named(DefinitionOf(name), input).display_name

\* The inputs a mapping binds, as given: <<i, j>> is input j of item i.
GivenInputs ==
    UNION {{<<i, j>> : j \in DOMAIN dependencies_dict.items[i].value.items}
           : i \in DOMAIN dependencies_dict.items}
GivenNode(b) == KeyAlias(dependencies_dict.items[b[1]].key)
GivenInput(b) == dependencies_dict.items[b[1]].value.items[b[2]].key.value
GivenFanIn(b) ==
    dependencies_dict.items[b[1]].value.items[b[2]].value.type = "MultiDependencyDefinition"

\* C14 as stated: whenever the mapping attaches a fan-in definition to an
\* input whose type does not support fan-in, create_execution_structure fails
\* with the fan-in error; and the fan-in error is raised only for a fan-in
\* definition on such an input.
C14_Original ==
    Ended =>
        /\ (\E b \in GivenInputs :
              /\ GivenFanIn(b)
              /\ GivenNode(b) \in NodeNamesBuilt
              /\ GivenInput(b) \in InputsOf(GivenNode(b))
              /\ ~TakesList(GivenNode(b), GivenInput(b)))
           => rpc = "raised" /\ IsFanInError(error)
        /\ IsFanInError(error)
           => \E b \in GivenInputs :
                /\ GivenFanIn(b)
                /\ GivenNode(b) \in NodeNamesBuilt
                /\ GivenInput(b) \in InputsOf(GivenNode(b))
                /\ ~TakesList(GivenNode(b), GivenInput(b))

\* C14 amended: when the first binding in scan order that breaks a rule, in
\* the mapping as re-keyed by alias, breaks only the fan-in rule (a member of
\* a fan-in list on an input whose type does not support fan-in), the call
\* fails with the fan-in error for that input and its type and returns no
\* structure; and the fan-in error is raised only for such a binding, never
\* for an input whose type supports fan-in.
C14_FanIn ==
    Ended =>
        /\ \A p \in EdgePositions :
             (/\ FirstViolation(p)
              /\ IllegalFanIn(Edge(p))
              /\ ~Circular(Edge(p))
              /\ ~UnknownProducer(Edge(p))
              /\ ~MissingOutput(Edge(p)))
             => /\ rpc = "raised"
                /\ dependency_structure = {}
                /\ FanInErrorNames(error, Edge(p).input,
                                   DisplayName(Edge(p).node, Edge(p).input))
        /\ IsFanInError(error)
           => \E p \in EdgePositions :
                /\ FirstViolation(p)
                /\ IllegalFanIn(Edge(p))
                /\ ~TakesList(Edge(p).node, Edge(p).input)

C14_Witness ==
    /\ rpc = "raised"
    /\ \E p \in EdgePositions :
        /\ p[1] = 2
        /\ FirstViolation(p)
        /\ IllegalFanIn(Edge(p))
        /\ FanInErrorNames(error, Edge(p).input, "Int")

\* Two distinct keys of the mapping, as given, resolve to the same alias.
GivenKey(i) == dependencies_dict.items[i].key
AliasCollision ==
    \E i, j \in DOMAIN dependencies_dict.items :
        i < j /\ KeyAlias(GivenKey(i)) = KeyAlias(GivenKey(j))

\* C15: whenever two distinct keys of the mapping resolve to the same alias,
\* whether they invoke the same definition or different ones,
\* create_execution_structure fails with a definition error, and every key
\* of the mapping keeps its own invocation and inputs in the indexes.
C15_Original ==
    Ended =>
        /\ AliasCollision => rpc = "raised" /\ IsDefinitionError(error)
        /\ rpc = "returned"
           => \A i \in DOMAIN dependencies_dict.items :
                /\ DictGet(alias_to_solid_instance, KeyAlias(GivenKey(i)), NoInvocation)
                     = solid_key_invoc(GivenKey(i))
                /\ DictGet(aliased_dependencies_dict, KeyAlias(GivenKey(i)), PyNone)
                     = dependencies_dict.items[i].value

\* The names of the nodes of the node map that refer to the definition
\* named `name`, and the supplied definition of that name.
NodesOf(name) ==
    {node_dict[i].key : i \in {i \in DOMAIN node_dict :
                                 node_dict[i].value.definition.name = name}}
SuppliedDefinition(name) ==
    node_defs[CHOOSE i \in DOMAIN node_defs : node_defs[i].name = name]

\* C16: when the mapping holds two keys that invoke one supplied definition
\* under distinct aliases, and no binding of the mapping breaks a rule, the
\* call returns and the node map holds exactly two nodes that refer to that
\* definition, named by the two aliases.
C16_Original ==
    Ended =>
        \A i, j \in DOMAIN dependencies_dict.items :
            (/\ i < j
             /\ KeyName(GivenKey(i)) = KeyName(GivenKey(j))
             /\ KeyName(GivenKey(i)) \in Supplied
             /\ KeyAlias(GivenKey(i)) # KeyAlias(GivenKey(j))
             /\ \A p \in GivenPositions : ~Violates(GivenEdge(p)))
            => /\ rpc = "returned"
               /\ NodesOf(KeyName(GivenKey(i)))
                    = {KeyAlias(GivenKey(i)), KeyAlias(GivenKey(j))}
               /\ \A n \in NodesOf(KeyName(GivenKey(i))) :
                    DefinitionOf(n) = SuppliedDefinition(KeyName(GivenKey(i)))

\* C17: whenever create_execution_structure returns a structure, every
\* binding (node, input) -> (producer, output) of the mapping has node and
\* producer in the node map, node different from producer, the input on the
\* node's definition, the output on the producer's definition, and is a
\* member of a fan-in list only if the input's type supports fan-in.
C17_Original ==
    rpc = "returned" =>
        \A p \in GivenPositions :
            /\ GivenEdge(p).node \in NodeNamesBuilt
            /\ GivenEdge(p).producer \in NodeNamesBuilt
            /\ GivenEdge(p).node # GivenEdge(p).producer
            /\ GivenEdge(p).input \in InputsOf(GivenEdge(p).node)
            /\ GivenEdge(p).output \in DefinitionOf(GivenEdge(p).producer).outputs
            /\ GivenEdge(p).fan_in => TakesList(GivenEdge(p).node, GivenEdge(p).input)

\* A dict as the mapping it is: its items, whatever their order.
AsMapping(d) == {d[i] : i \in DOMAIN d}

\* C18: when create_execution_structure has returned for a pair (node
\* definitions, mapping) and is called again on the same pair, it returns
\* again, with the same node names, each mapped to a node of the same kind,
\* definition, tags, hooks and retry policy, and with the same dependency
\* edges; and a call changes neither the node definitions nor the mapping.
C18_Idempotent ==
    /\ [](previous.returned /\ Ended
          => /\ rpc = "returned"
             /\ DictKeys(node_dict) = DictKeys(previous.node_dict)
             /\ AsMapping(node_dict) = AsMapping(previous.node_dict)
             /\ dependency_structure = previous.dependency_structure)
    /\ [][rpc = "validated"
          => /\ node_defs' = node_defs
             /\ dependencies' = dependencies
             /\ dependencies_dict' = dependencies_dict]_vars

C18_Witness ==
    /\ previous.returned
    /\ rpc = "returned"
    /\ dependency_structure # {}
    /\ Cardinality(DictKeys(node_dict)) = 3
    /\ node_dict # previous.node_dict
    /\ AsMapping(node_dict) = AsMapping(previous.node_dict)

\* ------------------------------------- claims: validate_dependency_dict
\* The first malformed place of a value in scan order: its shape, the
\* offending key or value, and the top-level key it sits under.
Malformation(shape, at, key) == [shape |-> shape, at |-> at, key |-> key]
WellFormed == Malformation("none", PyNone, PyNone)
RECURSIVE FirstMalformedInput(_, _)
FirstMalformedInput(key, items) ==
    IF items = <<>> THEN WellFormed
    ELSE IF Head(items).key.type # "str"
    THEN Malformation("inner key", Head(items).key, key)
    ELSE IF ~IsDependencyDefinition(Head(items).value)
    THEN Malformation("inner value", Head(items).value, key)
    ELSE FirstMalformedInput(key, Tail(items))
RECURSIVE FirstMalformedItem(_)
FirstMalformedItem(items) ==
    IF items = <<>> THEN WellFormed
    ELSE LET key == Head(items).key
             value == Head(items).value
         IN  IF key.type \notin {"str", "NodeInvocation"}
             THEN Malformation("key", key, key)
             ELSE IF IsDependencyDefinition(value)
             THEN Malformation("one layer too high", value, key)
             ELSE IF value.type # "dict"
             THEN Malformation("value", value, key)
             ELSE IF FirstMalformedInput(key, value.items) # WellFormed
             THEN FirstMalformedInput(key, value.items)
             ELSE FirstMalformedItem(Tail(items))
FirstMalformed(value) ==
    IF value.type = "NoneType" THEN WellFormed
    ELSE IF value.type # "dict" THEN Malformation("top level", value, PyNone)
    ELSE FirstMalformedItem(value.items)

\* A message names a value, and the type of a value.
Names(e, v) == \E i \in DOMAIN e.message : e.message[i] = [val |-> v]
NamesTypeOf(e, v) ==
    \E i \in DOMAIN e.message : e.message[i] = [val |-> [type |-> "type", value |-> v.type]]

\* C19: validate_dependency_dict raises a definition error exactly for the
\* malformed values; the error for a top-level value that is no mapping, a
\* key that is no string or invocation, a value that is no mapping, an inner
\* key that is no string and an inner value that is no dependency definition
\* names the type of the offending key or value and the offending key or
\* value itself (or, for an inner key, the key it sits under); the error for
\* a dependency definition one layer too high names the key.
C19_Original ==
    rpc \in {"rejected", "validated"} =>
        LET bad == FirstMalformed(dependencies)
        IN  /\ (bad # WellFormed) <=> (rpc = "rejected")
            /\ rpc = "rejected"
               => /\ IsDefinitionError(error)
                  /\ IF bad.shape = "one layer too high" THEN Names(error, bad.key)
                     ELSE /\ NamesTypeOf(error, bad.at)
                          /\ IF bad.shape = "inner key" THEN Names(error, bad.key)
                             ELSE Names(error, bad.at)

\* ---------------------------------------- claims: the place of a violation
\* C20: the definition error raised by dependency validation names the
\* consuming node of the binding that broke the rule and, unless that node
\* is unknown, the input being bound; it names the producer when the
\* producer is unknown or lacks the output, and the output when it is
\* lacking; and the node the fan-in error names together with the input is
\* the node that owns the input.
C20_Original ==
    (rpc = "raised" /\ IsDefinitionError(error)) =>
        \A p \in EdgePositions :
            FirstViolation(p)
            => /\ Names(error, Edge(p).node)
               /\ ~IsUnknownNodeError(error) => Names(error, Edge(p).input)
               /\ IsUnknownProducerError(error, Edge(p).producer, Edge(p).node, Edge(p).input)
                  => Names(error, Edge(p).producer)
               /\ (~Circular(Edge(p)) /\ ~UnknownConsumer(Edge(p)) /\ ~MissingInput(Edge(p))
                   /\ MissingOutput(Edge(p)))
                  => Names(error, Edge(p).producer) /\ Names(error, Edge(p).output)
               /\ IsFanInError(error) => error.message[2] = [val |-> Edge(p).node]

\* ------------------------------------------------- claims: the node map
\* The node the claim expects for an invocation of a supplied definition, and
\* for a supplied definition no key invokes.
NodeFor(invocation, alias) ==
    Node(node_class(SuppliedDefinition(invocation.name)), alias,
         SuppliedDefinition(invocation.name), invocation.tags, invocation.hook_defs,
         invocation.retry_policy)
Invoked == {KeyName(GivenKey(i)) : i \in DOMAIN dependencies_dict.items}
NodeAt(name) == node_dict[CHOOSE i \in DOMAIN node_dict : node_dict[i].key = name].value

\* C21: when create_execution_structure returns, the node map holds, for
\* every key of the mapping that invokes a supplied definition, a node named
\* by the key's alias, of the kind of that definition (GraphNode for a graph,
\* OpNode for an op), referring to it and carrying the invocation's tags,
\* hooks and retry policy; for every supplied definition no key invokes, a
\* node named by the definition name; and no other node; every node is keyed
\* by its own name.
C21_Original ==
    rpc = "returned" =>
        /\ \A i \in DOMAIN dependencies_dict.items :
             KeyName(GivenKey(i)) \in Supplied
             => /\ KeyAlias(GivenKey(i)) \in NodeNamesBuilt
                /\ NodeAt(KeyAlias(GivenKey(i)))
                     = NodeFor(solid_key_invoc(GivenKey(i)), KeyAlias(GivenKey(i)))
        /\ \A n \in Supplied \ Invoked :
             /\ n \in NodeNamesBuilt
             /\ NodeAt(n).definition = SuppliedDefinition(n)
             /\ NodeAt(n).class = node_class(SuppliedDefinition(n))
        /\ NodeNamesBuilt =
             {KeyAlias(GivenKey(i)) : i \in {j \in DOMAIN dependencies_dict.items :
                                              KeyName(GivenKey(j)) \in Supplied}}
             \cup (Supplied \ Invoked)
        /\ \A i \in DOMAIN node_dict : node_dict[i].key = node_dict[i].value.name
        /\ \A i, j \in DOMAIN node_dict : node_dict[i].key = node_dict[j].key => i = j

\* ------------------------------------------------ claims: the scan order
\* The first rule a binding breaks, in the order of the checks.
Kind(e) ==
    IF Circular(e) THEN "circular reference"
    ELSE IF UnknownConsumer(e) THEN "unknown consuming node"
    ELSE IF MissingInput(e) THEN "missing input"
    ELSE IF UnknownProducer(e) THEN "unknown producer"
    ELSE IF MissingOutput(e) THEN "missing output"
    ELSE IF IllegalFanIn(e) THEN "illegal fan-in"
    ELSE "none"
\* The rule an error message is about.
ErrorKind(e) ==
    IF Opening(e) = CIRCULAR THEN "circular reference"
    ELSE IF Opening(e) = FAN_IN THEN "illegal fan-in"
    ELSE IF Opening(e) = "Invalid dependencies: " THEN "missing input"
    ELSE IF Opening(e) = UNKNOWN_NODE /\ e.message[3].lit = "\" does not have output \""
    THEN "missing output"
    ELSE IF Opening(e) = UNKNOWN_NODE
            /\ e.message[3].lit = "\" not found in node list. Listed as dependency for node \""
    THEN "unknown producer"
    ELSE IF IsUnknownNodeError(e) THEN "unknown consuming node"
    ELSE "none"
GivenViolations == {p \in GivenPositions : Violates(GivenEdge(p))}
FirstGivenViolation(p) ==
    /\ p \in GivenViolations
    /\ \A q \in GivenViolations : ~Earlier(q, p)

\* C28: when the mapping holds several bindings that break a rule, the call
\* raises and returns no structure, and the error is the one of the first
\* such binding in scan order (keys, then inputs, then producers, in
\* insertion order), for the first rule that binding breaks in the order
\* circular reference, unknown consuming node, missing input, unknown
\* producer, missing output, illegal fan-in.
C28_Original ==
    (Ended /\ Cardinality(GivenViolations) >= 2)
    => /\ rpc = "raised"
       /\ dependency_structure = {}
       /\ IsDefinitionError(error)
       /\ \A p \in GivenPositions :
            FirstGivenViolation(p)
            => /\ ErrorKind(error) = Kind(GivenEdge(p))
               /\ Kind(GivenEdge(p)) \notin {"unknown consuming node"}
                  => Names(error, GivenEdge(p).input)

\* ------------------------------------------- claims: the monitor, further
\* The actions the monitor can request for a run.
Actions ==
    {"report_run_failed", "report_run_canceled", "resume_run", "terminate",
     "report_engine_event"}
NoAction == \A i \in DOMAIN calls : calls[i].op \notin Actions

\* C22: for a run fetched in STARTING the monitor requests no resume_run,
\* terminate, report_run_canceled or engine event; the only calls are the
\* run stats and at most one report_run_failed, requested only when the
\* launcher supports health checks and the time since launch is at least
\* the start timeout; without health-check support the run is never failed.
C22_StartingRun ==
    run_record.status = "STARTING"
    => /\ \A i \in DOMAIN calls : calls[i].op \in {"get_run_stats", "report_run_failed"}
       /\ \A i \in DOMAIN calls : calls[i].run_id = run_record.run_id
       /\ Count("report_run_failed") <= 1
       /\ ~handled
       /\ Requested("report_run_failed")
          => /\ instance.supports_check_run_worker_health
             /\ Answered("get_run_stats")
             /\ TheCall("get_run_stats").num # None
             /\ now - TheCall("get_run_stats").num
                  >= instance.run_monitoring_start_timeout_seconds
       /\ ~instance.supports_check_run_worker_health => ~Requested("report_run_failed")

C22_Witness ==
    /\ run_record.status = "STARTING"
    /\ ~instance.supports_check_run_worker_health
    /\ Answered("get_run_stats")
    /\ TheCall("get_run_stats").num = 0
    /\ now = DEFAULT_MAX_RUNTIME + 1
    /\ calls = <<TheCall("get_run_stats")>>
    /\ LastYield.marker = "None"

\* The run handled last is within its max-runtime budget: the record has no
\* start time, or the clock read at most the budget past it.
WithinBudget ==
    \/ run_record.start_time = None
    \/ now # NoTime /\ now - run_record.start_time <= C8_Budget

\* C23: no action is requested for a run fetched in CANCELING (no call at
\* all), and none for a run fetched in STARTED whose worker is reported
\* RUNNING or SUCCESS and which is within its max-runtime budget (the health
\* check is the only call); both yield the empty marker.
C23_NoAction ==
    /\ run_record.status = "CANCELING"
       => /\ calls = <<>>
          /\ ~handled
          /\ LastYield.run_id = run_record.run_id
          /\ LastYield.marker = "None"
    /\ ( /\ run_record.status = "STARTED"
         /\ Answered("check_run_worker_health")
         /\ TheCall("check_run_worker_health").arg \in {"RUNNING", "SUCCESS"}
         /\ WithinBudget )
       => /\ NoAction
          /\ calls = <<TheCall("check_run_worker_health")>>
          /\ LastYield.run_id = run_record.run_id
          /\ LastYield.marker = "None"

C23_Witness ==
    /\ run_record.status = "STARTED"
    /\ Answered("check_run_worker_health")
    /\ TheCall("check_run_worker_health").arg = "SUCCESS"
    /\ run_record.tags = {}
    /\ now - run_record.start_time = DEFAULT_MAX_RUNTIME
    /\ calls = <<TheCall("check_run_worker_health")>>
    /\ LastYield.marker = "None"

\* C24 as stated: in one iteration at most one of report_run_failed,
\* resume_run and terminate is requested for a run; a run is never both
\* reported failed and reported canceled, nor both resumed and terminated.
C24_Original ==
    /\ Cardinality({op \in {"report_run_failed", "resume_run", "terminate"} :
                        Requested(op)}) <= 1
    /\ ~(Requested("report_run_failed") /\ Requested("report_run_canceled"))
    /\ ~(Requested("resume_run") /\ Requested("terminate"))

\* C24 amended: in one iteration the monitor requests for a run at most one
\* of report_run_failed and resume_run, each at most once, and at most one
\* terminate, with report_run_canceled at most once and only after that
\* terminate raised; the terminate of the max-runtime check can follow a
\* report_run_failed or a resume_run of the health branch, never precede it.
C24_OneActionPerBranch ==
    /\ Count("report_run_failed") <= 1
    /\ Count("resume_run") <= 1
    /\ Count("terminate") <= 1
    /\ Count("report_run_canceled") <= 1
    /\ ~(Requested("report_run_failed") /\ Requested("resume_run"))
    /\ Requested("report_run_canceled") => Raised("terminate")
    /\ Requested("terminate") => (handled /\ run_record.status = "STARTED")
    /\ \A i, j \in DOMAIN calls :
        ( /\ calls[i].op \in {"report_run_failed", "resume_run"}
          /\ calls[j].op \in {"terminate", "report_run_canceled"} )
        => i < j

C24_Witness ==
    /\ run_record.status = "STARTED"
    /\ Completed("report_run_failed")
    /\ Raised("terminate")
    /\ Completed("report_run_canceled")
    /\ runs[run_record.run_id].status = "CANCELED"

\* The resume_run requests made for run r so far: each one follows a recorded
\* engine event announcing the resumption, and nothing else records one.
ResumesAsked(r) == CountMessage(runs[r].log, RESUMING_MESSAGE)
\* The resume markers written to the log of run r.
ResumeMarkers(r) == CountMessage(runs[r].log, RESUME_RUN_LOG_MESSAGE)
\* Every resume_run requested for run r so far has appended its marker.
EachResumeMarked(r) == ResumesAsked(r) = ResumeMarkers(r)

\* C25: over the iterations of one monitor, while every resume_run has
\* appended one resume marker to the run's log, the resume_run requests made
\* for a run number at most max-resume-attempts, and the n-th request carries
\* attempt number n: the numbers are 1, 2, ..., k, none requested twice.
\* Each step of the monitor adds to the count of requests exactly the
\* resume_run it requests for the run it handles, and one marker per completed
\* resume_run.
C25_ResumeBudget ==
    /\ [](\A r \in RunIds : EachResumeMarked(r) => ResumesAsked(r) <= MaxResume)
    /\ [][ \A r \in RunIds :
            LET acts == yielded' # <<>> /\ yielded' # yielded /\ run_record'.run_id = r
            IN  /\ ~acts => (ResumesAsked(r)' = ResumesAsked(r)
                             /\ ResumeMarkers(r)' = ResumeMarkers(r))
                /\ acts =>
                    /\ Count("resume_run")' <= 1
                    /\ ResumesAsked(r)' = ResumesAsked(r) + Count("resume_run")'
                    /\ ResumeMarkers(r)' = ResumeMarkers(r)
                         + (IF Completed("resume_run")' THEN 1 ELSE 0)
                    /\ (Requested("resume_run")' /\ EachResumeMarked(r))
                       => /\ TheCall("resume_run")'.num = ResumesAsked(r) + 1
                          /\ TheCall("resume_run")'.num <= MaxResume
                          /\ TheCall("resume_run")'.run_id = r
         ]_vars

C25_Witness ==
    /\ iter >= 1
    /\ MaxResume = 2
    /\ Completed("resume_run")
    /\ TheCall("resume_run").num = 2
    /\ ResumesAsked(run_record.run_id) = 2
    /\ EachResumeMarked(run_record.run_id)

\* What C26 supposes of run 1: the launcher supports health checks, the run
\* is STARTED until the monitor marks it failed, and whenever it is handled
\* the worker is reported unhealthy, the re-fetched status is unchanged and no
\* collaborator call raises (each resume_run then appends its marker).
StaysUnhealthy ==
    /\ instance.supports_check_run_worker_health
    /\ runs[1].status \in {"STARTED", "FAILURE"}
    /\ run_record # NoRecord
       => /\ run_record.run_id = 1
          /\ ReportedUnhealthy
          /\ StatusUnchanged
          /\ \A i \in DOMAIN calls : calls[i].ok
FailedByMonitor ==
    /\ run_record.run_id = 1
    /\ run_record.status = "STARTED"
    /\ Completed("report_run_failed")
    /\ runs[1].status = "FAILURE"

\* C26: if the run stays STARTED with an unhealthy worker in every iteration,
\* no call raises and nothing else changes its status, the monitor, called
\* again and again, ends up requesting report_run_failed for it: it does not
\* resume it for ever.
C26_EventuallyFailed == []StaysUnhealthy => <>FailedByMonitor

C26_Witness ==
    /\ iter = 2
    /\ StaysUnhealthy
    /\ FailedByMonitor
    /\ PriorCount = 2
    /\ MaxResume = 2
    /\ ResumeMarkers(1) = 2

\* C27 as stated: when the stored status of a run, at the moment the monitor
\* handles it, differs from the status of the fetched record, the monitor
\* requests no report_run_failed, resume_run, terminate or report_run_canceled
\* for it, whichever branch decides.
C27_Original ==
    [][ (yielded' # <<>> /\ yielded' # yielded
         /\ runs[run_record'.run_id].status # run_record'.status)
        => /\ ~Requested("report_run_failed")'
           /\ ~Requested("resume_run")'
           /\ ~Requested("terminate")'
           /\ ~Requested("report_run_canceled")'
      ]_vars

\* C27 amended: when the stored status differs from the fetched one, the
\* monitor never requests resume_run, never requests report_run_failed for a
\* run fetched in STARTED, and requests nothing at all once the unhealthy
\* branch has re-fetched the status; the start-timeout failure of a STARTING
\* run and the max-runtime termination reached without the unhealthy branch
\* are decided on the fetched record alone.
C27_StaleStatus ==
    [][ (yielded' # <<>> /\ yielded' # yielded
         /\ runs[run_record'.run_id].status # run_record'.status)
        => /\ ~Requested("resume_run")'
           /\ run_record'.status = "STARTED" => ~Requested("report_run_failed")'
           /\ run_record'.status = "STARTING" =>
                (~Requested("terminate")' /\ ~Requested("report_run_canceled")')
           /\ Answered("get_run_by_id")' =>
                /\ NoAction'
                /\ ~handled'
                /\ TheCall("get_run_by_id")'.arg = runs[run_record'.run_id].status
      ]_vars

C27_Witness ==
    /\ run_record.status = "STARTING"
    /\ Raised("report_run_failed")
    /\ runs[run_record.run_id].status = "CANCELING"
    /\ LastYield.marker = "error"

\* C30: while the monitor handles run R, every call it makes carries R's id,
\* and the status and the engine-event log of every other run are what they
\* were before, also when the handling of R raises.
C30_OtherRunsUntouched ==
    [][ (yielded' # <<>> /\ yielded' # yielded)
        => /\ run_record' = run_records[idx]
           /\ \A i \in DOMAIN calls' : calls'[i].run_id = run_record'.run_id
           /\ \A r \in RunIds \ {run_record'.run_id} :
                /\ runs'[r].status = runs[r].status
                /\ runs'[r].log = runs[r].log
      ]_vars

C30_Witness ==
    /\ Len(yielded) = 2
    /\ LastYield.marker = "error"
    /\ Completed("report_engine_event")
    /\ Raised("report_run_canceled")
    /\ runs[run_record.run_id].log # <<>>
    /\ runs[yielded[1].run_id].status = "FAILURE"
    /\ runs[yielded[1].run_id].log = <<>>

\* The calls that ask a collaborator; the others request an action.
Questions == {"get_run_stats", "check_run_worker_health", "all_logs", "get_run_by_id"}
\* What a call asks for, apart from what comes back.
Request(c) ==
    IF c.op \in Questions THEN [op |-> c.op, run_id |-> c.run_id, arg |-> "", num |-> NoNum]
    ELSE [op |-> c.op, run_id |-> c.run_id, arg |-> c.arg, num |-> c.num]
\* Two passes read the same clock, where both read it.
SameClock(a, b) == a.now = b.now \/ a.now = NoTime \/ b.now = NoTime
\* Two passes over the same record and store behave alike: as long as the
\* collaborators gave the same answers (results and raises) and the clock read
\* the same, the next call requested is the same with the same arguments, and
\* when all answers agree the passes end alike, with the same marker.
SameConduct(a, b) ==
    LET la == Len(a.calls)
        lb == Len(b.calls)
        n == IF la <= lb THEN la ELSE lb
    IN  \A k \in 1 .. (n + 1) :
            ((\A i \in 1 .. (k - 1) : a.calls[i] = b.calls[i]) /\ SameClock(a, b))
            => /\ k <= la <=> k <= lb
               /\ k <= n => Request(a.calls[k]) = Request(b.calls[k])
               /\ (k > la /\ k > lb)
                  => /\ a.raised = b.raised
                     /\ a.handled = b.handled
                     /\ a.now = b.now

\* C29: an iteration of a monitor that has run before, handling the record
\* and meeting the store contents that its first iteration handled and met,
\* with the same configuration, makes the same calls with the same arguments
\* as long as the answers and the clock are the same, and yields the same
\* marker: nothing of the earlier iterations is kept.
C29_Stateless ==
    [][ ( /\ yielded' # <<>> /\ yielded' # yielded
          /\ first_pass.kept = "yes"
          /\ first_pass.store = runs
          /\ first_pass.record = run_record' )
        => /\ iter >= 1
           /\ SameConduct(first_pass.outcome,
                          Outcome(calls', LastYield'.marker = "error", handled', now'))
      ]_vars

C29_Witness ==
    /\ iter = 2
    /\ first_pass.kept = "yes"
    /\ first_pass.record = run_record
    /\ first_pass.store = runs
    /\ first_pass.outcome.calls = calls
    /\ first_pass.outcome.now = now
    /\ ReportedUnhealthy
    /\ Raised("report_engine_event")
    /\ LastYield.marker = "error"

====
